---- MODULE Spec2Model ----
(***************************************************************************)
(* A model of the request orchestration engine of parallel-requests:       *)
(*   RetryStrategy      (src/src/parallel_requests/utils/retry.py)         *)
(*   TokenBucket,                                                          *)
(*   AsyncRateLimiter   (src/src/parallel_requests/utils/rate_limiter.py)  *)
(*   ParallelRequests   (src/src/parallel_requests/client.py)              *)
(*   RequestsBackend    (src/src/parallel_requests/backends/requests.py)   *)
(*                                                                         *)
(* The program runs on one asyncio event loop: the code between two awaits *)
(* is atomic, so every action below is the code from one suspension point  *)
(* to the next.  Time is counted in ticks (variable now); a deadline is    *)
(* kept in TimeScale-ths of a tick and a sleeper is resumable at the first *)
(* tick at or after its deadline.                                          *)
(***************************************************************************)
EXTENDS Integers, Sequences, FiniteSets, TLC

VARIABLES
    now,            \* time.monotonic() / the loop clock, in ticks
    config,         \* RetryStrategy.config
    rpc,            \* per task: position inside RetryStrategy.execute
    attempt,        \* per task: loop variable of execute
    last_error,     \* per task: local last_error of execute
    wake,           \* per task: deadline of the pending asyncio.sleep
    calls,          \* per task: invocations of func so far
    sleeps,         \* per task: backoff sleeps started so far
    errs,           \* per task: the errors raised by the invocations, in order
    rresult,        \* per task: what execute returned or raised
    bucket,         \* TokenBucket: _tokens, _last_update, burst, requests_per_second
    bpc,            \* per task: position inside TokenBucket.acquire
    bwant,          \* per task: argument tokens of the pending acquire
    bwake,          \* per task: deadline of the pending asyncio.sleep(wait_time)
    rlconfig,       \* AsyncRateLimiter.config
    sem,            \* AsyncRateLimiter._semaphore
    lpc,            \* per task: position inside AsyncRateLimiter.acquire
    client,         \* ParallelRequests: the attributes set by __init__
    session,        \* Backend._session
    lifecycle,      \* Uninitialized, Open or Closed: what was called on the client
    req,            \* the request() call: its arguments and position
    ret,            \* what the last request() call returned or raised
    inflight,       \* tasks suspended in backend.request
    completed,      \* tasks of the batch in the order they completed
    proxies,        \* ProxyManager._proxies
    failed_proxies, \* ProxyManager._failed_proxies
    retry_delay,    \* ProxyManager._config.retry_delay, in ticks
    proxy_call,     \* the last call on the ProxyManager and what it returned
    taken,          \* tokens asked by the TokenBucket.acquire calls that returned
    hm,             \* HeaderManager: _enabled, _custom_ua, _agents
    importable,     \* the backend modules that importlib can import
    call            \* the last call on a component and how far it got

retryVars == <<config, rpc, attempt, last_error, wake, calls, sleeps, errs, rresult>>

bucketVars == <<bucket, bpc, bwant, bwake>>

limiterVars == <<rlconfig, sem, lpc>>

clientVars == <<client, session, lifecycle, req, ret, inflight, completed>>

proxyVars == <<proxies, failed_proxies, retry_delay, proxy_call>>

compVars == <<hm, importable, call>>

vars == <<now, retryVars, bucketVars, limiterVars, clientVars, proxyVars, taken, compVars>>

----------------------------------------------------------------------------
(* Bounds of the model *)

MaxPool == 2        \* longest proxy list
MaxN == 3           \* concurrent tasks
MaxConc == 2        \* largest max_concurrency tried
MaxRetries == 2     \* largest max_retries tried
MaxTime == 4        \* the clock stops here
MaxBurst == 2       \* largest burst tried
MaxRate == 2        \* largest refill rate tried, in token parts per tick

Tasks == 1..MaxN

(* ticks are divided in TimeScale parts for deadlines *)
TimeScale == 100

----------------------------------------------------------------------------
(* Exceptions.  A class is a string, an instance a record; id tells the    *)
(* instances raised by successive invocations apart.                       *)

Classes == {"Exception", "ValueError", "OSError", "ConnectionError", "RuntimeError",
            "BackendError", "RetryExhaustedError"}

Parent(c) ==
    CASE c = "ConnectionError" -> "OSError"
      [] OTHER -> "Exception"

RECURSIVE IsSubclass(_, _)
IsSubclass(c, d) ==
    IF c = d THEN TRUE
    ELSE IF c = "Exception" THEN FALSE
    ELSE IsSubclass(Parent(c), d)

(* isinstance(error, tuple(classes)) *)
IsInstance(e, classes) == \E d \in classes : IsSubclass(e.cls, d)

NoError == [cls |-> "None", id |-> 0, attempts |-> 0, last_error |-> <<>>, task |-> 0]

Error(cls, id) == [cls |-> cls, id |-> id, attempts |-> 0, last_error |-> <<>>, task |-> 0]

RetryExhaustedErrorWithoutCause(attempts, last) ==
    [cls |-> "RetryExhaustedError", id |-> 0, attempts |-> attempts, last_error |-> <<>>, task |-> 0]

(* RetryExhaustedError(message, attempts=attempts, last_error=last) *)
RetryExhaustedError(attempts, last) ==
    [cls |-> "RetryExhaustedError", id |-> 0, attempts |-> attempts,
     last_error |-> IF last = NoError THEN <<>> ELSE <<last>>, task |-> 0]

(* A Python value is a sequence of strings; None is PyNone.  A result is a
   value or an exception. *)
PyNone == <<"None">>

NoResult == [kind |-> "none", val |-> <<>>, err |-> NoError]
Returned(v) == [kind |-> "ok", val |-> v, err |-> NoError]
Raised(e) == [kind |-> "exc", val |-> <<>>, err |-> e]

----------------------------------------------------------------------------
(* RetryStrategy *)

(* defaults of RetryConfig: backoff_multiplier in ticks, jitter in percent *)
BackoffMultiplier == 1
JitterPct == 10

RetryConfig(m, retry_on, dont_retry_on) ==
    [max_retries |-> m, backoff_multiplier |-> BackoffMultiplier, jitter |-> JitterPct,
     retry_on |-> retry_on, dont_retry_on |-> dont_retry_on]

RECURSIVE Pow2(_)
Pow2(n) == IF n = 0 THEN 1 ELSE 2 * Pow2(n - 1)

Max(a, b) == IF a >= b THEN a ELSE b
Min(a, b) == IF a <= b THEN a ELSE b

CalculateDelayConstant(cfg, a) ==
    LET base_delay == cfg.backoff_multiplier * TimeScale
        jitter_amount == (cfg.jitter * base_delay) \div 100
    IN  { Max(0, base_delay + u) : u \in {-jitter_amount, jitter_amount} }

(* _calculate_delay: the delays, in TimeScale-ths of a tick, that
   random.uniform can produce; the two ends of the interval *)
CalculateDelay(cfg, a) ==
    LET base_delay == cfg.backoff_multiplier * Pow2(a) * TimeScale
        jitter_amount == (cfg.jitter * base_delay) \div 100
    IN  { Max(0, base_delay + u) : u \in {-jitter_amount, jitter_amount} }

ShouldRetryNoAllow(cfg, e) ==
    IF cfg.dont_retry_on # {} /\ IsInstance(e, cfg.dont_retry_on) THEN FALSE ELSE TRUE

ShouldRetryNoDeny(cfg, e) ==
    IF cfg.retry_on # {} THEN IsInstance(e, cfg.retry_on) ELSE TRUE

(* _should_retry; an empty or absent set is falsy *)
ShouldRetry(cfg, e) ==
    IF cfg.dont_retry_on # {} /\ IsInstance(e, cfg.dont_retry_on) THEN FALSE
    ELSE IF cfg.retry_on # {} THEN IsInstance(e, cfg.retry_on)
    ELSE TRUE

SleepsAfterEveryFailure(cfg, a) == TRUE

(* "if attempt < self.config.max_retries": a backoff sleep follows *)
SleepsBeforeNext(cfg, a) == a < cfg.max_retries

LoopContinuesOneMore(cfg, a) == a + 1 < cfg.max_retries + 2

(* "for attempt in range(self.config.max_retries + 1)": after iteration a
   there is another one *)
LoopContinues(cfg, a) == a + 1 < cfg.max_retries + 1

(* execute is called: the first iteration invokes func *)
RetryExecute(t) ==
    /\ rpc[t] = "idle"
    /\ LoopContinues(config, -1)
    /\ rpc' = [rpc EXCEPT ![t] = "call"]
    /\ attempt' = [attempt EXCEPT ![t] = 0]
    /\ last_error' = [last_error EXCEPT ![t] = NoError]
    /\ calls' = [calls EXCEPT ![t] = 1]
    /\ UNCHANGED <<config, wake, sleeps, errs, rresult>>

RetryOnSuccessLosingResult(t, v) ==
    /\ rpc[t] = "call"
    /\ rpc' = [rpc EXCEPT ![t] = "returned"]
    /\ rresult' = [rresult EXCEPT ![t] = Returned(PyNone)]
    /\ UNCHANGED <<config, attempt, last_error, wake, calls, sleeps, errs>>

(* "return await func(...)": func returned v *)
RetryOnSuccess(t, v) ==
    /\ rpc[t] = "call"
    /\ rpc' = [rpc EXCEPT ![t] = "returned"]
    /\ rresult' = [rresult EXCEPT ![t] = Returned(v)]
    /\ UNCHANGED <<config, attempt, last_error, wake, calls, sleeps, errs>>

(* the end of one iteration of the for loop: the next iteration invokes func,
   or the loop is over and RetryExhaustedError is raised *)
RetryNextIteration(t, last) ==
    IF LoopContinues(config, attempt[t])
    THEN /\ rpc' = [rpc EXCEPT ![t] = "call"]
         /\ attempt' = [attempt EXCEPT ![t] = @ + 1]
         /\ calls' = [calls EXCEPT ![t] = @ + 1]
         /\ UNCHANGED rresult
    ELSE /\ rpc' = [rpc EXCEPT ![t] = "raised"]
         /\ rresult' = [rresult EXCEPT ![t] =
                           Raised(RetryExhaustedError(config.max_retries, last))]
         /\ UNCHANGED <<attempt, calls>>

(* "except Exception as e": func raised e; up to the next await or raise *)
RetryOnError(t, e) ==
    /\ rpc[t] = "call"
    /\ last_error' = [last_error EXCEPT ![t] = e]
    /\ errs' = [errs EXCEPT ![t] = Append(@, e)]
    /\ IF ~ShouldRetry(config, e)
       THEN /\ rpc' = [rpc EXCEPT ![t] = "raised"]
            /\ rresult' = [rresult EXCEPT ![t] = Raised(e)]
            /\ UNCHANGED <<attempt, calls, wake, sleeps>>
       ELSE IF SleepsBeforeNext(config, attempt[t])
       THEN /\ rpc' = [rpc EXCEPT ![t] = "sleep"]
            /\ \E d \in CalculateDelay(config, attempt[t]) :
                  wake' = [wake EXCEPT ![t] = now * TimeScale + d]
            /\ sleeps' = [sleeps EXCEPT ![t] = @ + 1]
            /\ UNCHANGED <<attempt, calls, rresult>>
       ELSE /\ RetryNextIteration(t, e)
            /\ UNCHANGED <<wake, sleeps>>
    /\ UNCHANGED config

(* asyncio.sleep(delay) is over: its timer is gone *)
RetryWake(t) ==
    /\ rpc[t] = "sleep"
    /\ now * TimeScale >= wake[t]
    /\ RetryNextIteration(t, last_error[t])
    /\ wake' = [wake EXCEPT ![t] = 0]
    /\ UNCHANGED <<config, last_error, sleeps, errs>>

RetryInitTasks ==
    /\ rpc = [t \in Tasks |-> "idle"]
    /\ attempt = [t \in Tasks |-> 0]
    /\ last_error = [t \in Tasks |-> NoError]
    /\ wake = [t \in Tasks |-> 0]
    /\ calls = [t \in Tasks |-> 0]
    /\ sleeps = [t \in Tasks |-> 0]
    /\ errs = [t \in Tasks |-> <<>>]
    /\ rresult = [t \in Tasks |-> NoResult]

(* execute is called by each task of S at once and by no other task: every
   one of them is in the first iteration of the loop, about to invoke func *)
RetryExecuteAll(S) ==
    /\ rpc' = [t \in Tasks |-> IF t \in S THEN "call" ELSE "idle"]
    /\ attempt' = [t \in Tasks |-> 0]
    /\ last_error' = [t \in Tasks |-> NoError]
    /\ wake' = [t \in Tasks |-> 0]
    /\ calls' = [t \in Tasks |-> IF t \in S THEN 1 ELSE 0]
    /\ sleeps' = [t \in Tasks |-> 0]
    /\ errs' = [t \in Tasks |-> <<>>]
    /\ rresult' = [t \in Tasks |-> NoResult]

NoRetry ==
    /\ config = RetryConfig(0, {}, {})
    /\ RetryInitTasks

----------------------------------------------------------------------------
(* TokenBucket.  _tokens is a float in the code; here it is counted in     *)
(* TokenUnit-ths of a token and requests_per_second in such parts per tick *)

TokenUnit == 2

TokenBucketInit(rate, burst, tnow) ==
    [tokens |-> burst * TokenUnit, last_update |-> tnow, burst |-> burst,
     requests_per_second |-> rate]

RefillTokensNever(b, tnow) == [b EXCEPT !.last_update = tnow]

RefillTokensUncapped(b, tnow) ==
    [b EXCEPT !.last_update = tnow,
              !.tokens = b.tokens + (tnow - b.last_update) * b.requests_per_second]

(* _refill_tokens *)
RefillTokens(b, tnow) ==
    [b EXCEPT !.last_update = tnow,
              !.tokens = Min(b.burst * TokenUnit,
                             b.tokens + (tnow - b.last_update) * b.requests_per_second)]

(* int(self._tokens), the value available() returns *)
AvailableTokens(b) == b.tokens \div TokenUnit

AcquireIterationLosingUpdate(b, n, tnow) ==
    LET r == RefillTokens(b, tnow)
    IN  IF r.tokens >= n * TokenUnit
        THEN [bucket |-> r, ok |-> TRUE, deadline |-> 0]
        ELSE [bucket |-> r, ok |-> FALSE,
              deadline |-> tnow * TimeScale
                  + ((n * TokenUnit - r.tokens) * TimeScale) \div r.requests_per_second]

AcquireIterationWhenFull(b, n, tnow) ==
    LET r == RefillTokens(b, tnow)
        m == Min(n, b.burst)
    IN  IF r.tokens >= m * TokenUnit
        THEN [bucket |-> [r EXCEPT !.tokens = @ - m * TokenUnit], ok |-> TRUE,
              deadline |-> 0]
        ELSE [bucket |-> r, ok |-> FALSE,
              deadline |-> tnow * TimeScale
                  + ((n * TokenUnit - r.tokens) * TimeScale) \div r.requests_per_second]

(* one iteration of the loop of acquire(n): the bucket afterwards, whether
   acquire returns, and otherwise the deadline of the sleep *)
AcquireIteration(b, n, tnow) ==
    LET r == RefillTokens(b, tnow)
    IN  IF r.tokens >= n * TokenUnit
        THEN [bucket |-> [r EXCEPT !.tokens = @ - n * TokenUnit], ok |-> TRUE,
              deadline |-> 0]
        ELSE [bucket |-> r, ok |-> FALSE,
              deadline |-> tnow * TimeScale
                  + ((n * TokenUnit - r.tokens) * TimeScale) \div r.requests_per_second]

BucketAvailableConsuming ==
    /\ bucket' = [RefillTokens(bucket, now) EXCEPT !.tokens = Max(0, @ - TokenUnit)]
    /\ UNCHANGED <<bpc, bwant, bwake>>

(* available() *)
BucketAvailable ==
    /\ bucket' = RefillTokens(bucket, now)
    /\ UNCHANGED <<bpc, bwant, bwake>>

(* task t runs one iteration of acquire(n) on bucket b *)
BucketIterateOn(b, t, n) ==
    LET it == AcquireIteration(b, n, now)
    IN  /\ bucket' = it.bucket
        /\ bpc' = [bpc EXCEPT ![t] = IF it.ok THEN "idle" ELSE "sleep"]
        /\ bwant' = [bwant EXCEPT ![t] = IF it.ok THEN 0 ELSE n]
        /\ bwake' = [bwake EXCEPT ![t] = it.deadline]

BucketIterate(t, n) == BucketIterateOn(bucket, t, n)

(* acquire(n) is called *)
BucketAcquire(t, n) ==
    /\ bpc[t] = "idle"
    /\ BucketIterate(t, n)

(* asyncio.sleep(wait_time) is over: the loop checks again *)
BucketResume(t) ==
    /\ bpc[t] = "sleep"
    /\ now * TimeScale >= bwake[t]
    /\ BucketIterate(t, bwant[t])

BucketInitTasks ==
    /\ bpc = [t \in Tasks |-> "idle"]
    /\ bwant = [t \in Tasks |-> 0]
    /\ bwake = [t \in Tasks |-> 0]

----------------------------------------------------------------------------
(* AsyncRateLimiter: an asyncio.Semaphore around the token bucket.  The    *)
(* semaphore keeps a FIFO of waiters; release hands the slot to the first  *)
(* waiter that has not been granted one yet.                               *)

RateLimitConfig(rate, burst, c) ==
    [requests_per_second |-> rate, burst |-> burst, max_concurrency |-> c]

SemaphoreInit(c) == [value |-> c, waiters |-> <<>>, granted |-> {}]

SemNeverLocked(s) == FALSE

(* Semaphore.locked() *)
SemLocked(s) == s.value = 0 \/ Len(s.waiters) > 0

(* Semaphore._wake_up_next() *)
WakeUpNext(s) ==
    LET pending == {i \in 1..Len(s.waiters) : s.waiters[i] \notin s.granted}
    IN  IF pending = {} THEN s
        ELSE LET first == CHOOSE i \in pending : \A j \in pending : i <= j
             IN  [s EXCEPT !.value = @ - 1, !.granted = @ \cup {s.waiters[first]}]

SemReleaseWithoutWake(s) == [s EXCEPT !.value = @ + 1]

(* Semaphore.release() *)
SemRelease(s) == WakeUpNext([s EXCEPT !.value = @ + 1])

(* a granted waiter resumes inside Semaphore.acquire() *)
SemResumed(s, t) ==
    LET r == [s EXCEPT !.waiters = SelectSeq(@, LAMBDA w : w # t), !.granted = @ \ {t}]
    IN  IF r.value > 0 THEN WakeUpNext(r) ELSE r

(* with the slot held (the semaphore is s1): the logged available() and
   bucket.acquire(), up to the sleep inside bucket.acquire() or through the
   yield into the body of the async with block *)
LimiterTakeToken(t, s1, Body(_, _)) ==
    /\ BucketIterateOn(RefillTokens(bucket, now), t, 1)
    /\ IF bpc'[t] = "idle"
       THEN Body(t, s1)
       ELSE /\ sem' = s1
            /\ lpc' = [lpc EXCEPT ![t] = "bucket"]
            /\ UNCHANGED <<retryVars, inflight>>

(* "async with limiter.acquire()" is entered by task t *)
LimiterAcquire(t, Body(_, _)) ==
    /\ lpc[t] = "idle"
    /\ IF ~SemLocked(sem)
       THEN LimiterTakeToken(t, [sem EXCEPT !.value = @ - 1], Body)
       ELSE /\ sem' = [sem EXCEPT !.waiters = Append(@, t)]
            /\ lpc' = [lpc EXCEPT ![t] = "wait_sem"]
            /\ UNCHANGED <<bucketVars, retryVars, inflight>>
    /\ UNCHANGED rlconfig

(* a waiter that was handed a slot resumes *)
LimiterGranted(t, Body(_, _)) ==
    /\ lpc[t] = "wait_sem"
    /\ t \in sem.granted
    /\ LimiterTakeToken(t, SemResumed(sem, t), Body)
    /\ UNCHANGED rlconfig

(* the sleep inside bucket.acquire() is over *)
LimiterBucketResume(t, Body(_, _)) ==
    /\ lpc[t] = "bucket"
    /\ BucketResume(t)
    /\ IF bpc'[t] = "idle"
       THEN Body(t, sem)
       ELSE UNCHANGED <<sem, lpc, retryVars, inflight>>
    /\ UNCHANGED rlconfig

LimiterExitKeepingSlot(t) ==
    /\ lpc[t] = "inside"
    /\ sem' = sem
    /\ lpc' = [lpc EXCEPT ![t] = "idle"]
    /\ UNCHANGED <<rlconfig, bucketVars>>

(* the body of the async with block ends, by return or by exception *)
LimiterExit(t) ==
    /\ lpc[t] = "inside"
    /\ sem' = SemRelease(sem)
    /\ lpc' = [lpc EXCEPT ![t] = "idle"]
    /\ UNCHANGED <<rlconfig, bucketVars>>

(* a body that keeps the slot for a while *)
PlainBody(t, s1) ==
    /\ sem' = s1
    /\ lpc' = [lpc EXCEPT ![t] = "inside"]
    /\ UNCHANGED <<retryVars, inflight>>

LimiterInitTasks == lpc = [t \in Tasks |-> "idle"]

NoLimiter ==
    /\ rlconfig = RateLimitConfig(1, 1, 1)
    /\ sem = SemaphoreInit(1)
    /\ LimiterInitTasks

----------------------------------------------------------------------------
(* ProxyManager.  time.time() is the clock, in ticks; a proxy address that
   passed validate() is a string, and a dict is a function *)

EmptyDict == [p \in {} |-> 0]

(* a call op(proxy) that returned result; None is "None" *)
ProxyCall(op, proxy, result) == [op |-> op, proxy |-> proxy, result |-> result]

(* the state after ProxyManager(ProxyConfig(list=ps, retry_delay=d)), every
   address of ps being valid: _load_proxies keeps them all, in order,
   repetitions included *)
ProxyManagerInit(ps, d) ==
    /\ proxies = ps
    /\ failed_proxies = EmptyDict
    /\ retry_delay = d
    /\ proxy_call = ProxyCall("none", "None", "None")

NoProxyManager == ProxyManagerInit(<<>>, 1)

(* "p in self._proxies" *)
InProxies(ps, p) == \E i \in 1..Len(ps) : ps[i] = p

PurgedAll(failed, t) == EmptyDict

(* "{p: t for p, t in self._failed_proxies.items() if t > now}" *)
Purged(failed, t) ==
    [p \in {q \in DOMAIN failed : failed[q] > t} |-> failed[p]]

(* "[p for p in self._proxies if p not in self._failed_proxies]": the
   positions of the list that are kept *)
AvailablePositions(ps, failed) == {i \in 1..Len(ps) : ps[i] \notin DOMAIN failed}

(* get_next(): the lock is free whenever it is asked for, as no holder
   awaits inside it, so the body runs in one piece; random.choice picks any
   position of the list *)
ProxyGetNext ==
    LET kept == Purged(failed_proxies, now)
        available == AvailablePositions(proxies, kept)
    IN  /\ failed_proxies' = kept
        /\ IF available = {}
           THEN proxy_call' = ProxyCall("get_next", "None", "None")
           ELSE \E i \in available :
                   proxy_call' = ProxyCall("get_next", "None", proxies[i])
        /\ UNCHANGED <<proxies, retry_delay>>

(* mark_failed(proxy) *)
ProxyMarkFailed(proxy) ==
    /\ IF InProxies(proxies, proxy)
       THEN failed_proxies' =
               [p \in DOMAIN failed_proxies \cup {proxy} |->
                   IF p = proxy THEN now + retry_delay ELSE failed_proxies[p]]
       ELSE UNCHANGED failed_proxies
    /\ proxy_call' = ProxyCall("mark_failed", proxy, "None")
    /\ UNCHANGED <<proxies, retry_delay>>

ProxyMarkSuccessClearingAll(proxy) ==
    /\ failed_proxies' = EmptyDict
    /\ proxy_call' = ProxyCall("mark_success", proxy, "None")
    /\ UNCHANGED <<proxies, retry_delay>>

(* mark_success(proxy): "self._failed_proxies.pop(proxy, None)" *)
ProxyMarkSuccess(proxy) ==
    /\ failed_proxies' = [p \in DOMAIN failed_proxies \ {proxy} |-> failed_proxies[p]]
    /\ proxy_call' = ProxyCall("mark_success", proxy, "None")
    /\ UNCHANGED <<proxies, retry_delay>>

(* count_available() at time t *)
CountAvailable(ps, failed, t) ==
    Cardinality({i \in 1..Len(ps) :
                    ps[i] \notin DOMAIN failed \/ failed[ps[i]] <= t})

(* the clock advances *)
Tick ==
    /\ now < MaxTime
    /\ now' = now + 1

----------------------------------------------------------------------------
(* Components used on their own: HeaderManager, the selection of the       *)
(* backend and the request of an AiohttpBackend.  A call is recorded with  *)
(* its argument, how far it got and its outcome.                           *)

NoOutcome == [kind |-> "none", value |-> <<>>,
              exc |-> [cls |-> "None", message |-> <<>>, cause |-> "None"]]

CallReturned(value) == [NoOutcome EXCEPT !.kind = "ok", !.value = value]

(* raise cls(message) from cause *)
CallRaised(cls, message, cause) ==
    [NoOutcome EXCEPT !.kind = "exc",
                      !.exc = [cls |-> cls, message |-> message, cause |-> cause]]

NoCall == [op |-> "none", arg |-> <<>>, pc |-> "done", result |-> NoOutcome]

MaxAgents == 2      \* longest list of user agents given to HeaderManager

(* HeaderManager.DEFAULT_USER_AGENTS, two strings standing for the eight *)
DefaultUserAgents == <<"default-1", "default-2">>

(* bool(s) of an optional string; None is "None" *)
Truthy(s) == s \notin {"None", ""}

(* HeaderManager._load_user_agents with USER_AGENTS_URL unset; env is
   os.getenv("USER_AGENTS", "").split(","), empty when the variable is *)
LoadUserAgents(provided, env) ==
    IF provided # <<>> THEN provided
    ELSE IF env # <<>> THEN env
    ELSE DefaultUserAgents

(* HeaderManager(random_user_agent, user_agents, custom_user_agent) *)
HeaderManagerInit(random_user_agent, user_agents, custom_user_agent, env) ==
    [enabled |-> random_user_agent, custom_ua |-> custom_user_agent,
     agents |-> LoadUserAgents(user_agents, env)]

DictUpdateKeepingOld(headers, other) ==
    [k \in DOMAIN headers \cup DOMAIN other |->
        IF k \in DOMAIN headers THEN headers[k] ELSE other[k]]

(* headers.update(other) *)
DictUpdate(headers, other) ==
    [k \in DOMAIN headers \cup DOMAIN other |->
        IF k \in DOMAIN other THEN other[k] ELSE headers[k]]

(* what random.choice(agents) may return *)
RandomChoices(agents) == {agents[i] : i \in DOMAIN agents}

(* the headers of get_headers before the custom ones; a is the agent that
   random.choice returns if it is called *)
BaseHeaders(h, a) ==
    IF h.enabled
    THEN IF Truthy(h.custom_ua) THEN [k \in {"user-agent"} |-> h.custom_ua]
         ELSE [k \in {"user-agent"} |-> a]
    ELSE EmptyDict

(* HeaderManager.get_headers(custom_headers); custom_headers is None when
   it is not given *)
GetHeaders(h, custom, a) ==
    IF custom.given /\ custom.dict # EmptyDict
    THEN DictUpdate(BaseHeaders(h, a), custom.dict)
    ELSE BaseHeaders(h, a)

BackendClassesRequestsFirst == <<"requests", "aiohttp", "niquests">>

(* backend_classes of _select_backend: the modules tried by "auto" *)
BackendClasses == <<"niquests", "aiohttp", "requests">>

(* the modules of the backends package; base defines no backend *)
BackendModules == {"niquests", "aiohttp", "requests", "httpx", "base"}

NoSuitableBackend == <<"No suitable backend found">>

(* ParallelRequests._select_backend with backend_name = name when
   importlib can import the modules of imp: the backend, or the
   ConfigurationError *)
SelectBackend(name, imp) ==
    IF name = "auto"
    THEN LET found == {i \in 1..Len(BackendClasses) : BackendClasses[i] \in imp}
         IN  IF found = {}
             THEN CallRaised("ConfigurationError", NoSuitableBackend, "None")
             ELSE CallReturned(BackendClasses[CHOOSE i \in found :
                                                 \A j \in found : i <= j])
    ELSE IF name \notin imp
         THEN CallRaised("ConfigurationError", <<"Failed to load backend", name>>,
                         "ImportError")
         ELSE IF name = "base"
              THEN CallRaised("ConfigurationError", <<"Backend", name, "not found">>,
                              "None")
              ELSE CallReturned(name)

(* exceptions of aiohttp and asyncio *)
AiohttpParent(c) ==
    CASE c = "ClientConnectorError" -> "ClientConnectionError"
      [] c = "ServerDisconnectedError" -> "ClientConnectionError"
      [] c = "ClientConnectionError" -> "ClientError"
      [] c = "ClientPayloadError" -> "ClientError"
      [] OTHER -> "Exception"

RECURSIVE AiohttpIsSubclass(_, _)
AiohttpIsSubclass(c, d) ==
    IF c = d THEN TRUE
    ELSE IF c = "Exception" THEN FALSE
    ELSE AiohttpIsSubclass(AiohttpParent(c), d)

(* what the transport may raise while the request is sent and the response
   head awaited, and while the body is read *)
SendErrors == {"ClientConnectorError", "ServerDisconnectedError", "TimeoutError"}

ReadErrors == {"ClientPayloadError", "ServerDisconnectedError", "TimeoutError"}

(* "except (aiohttp.ClientError, asyncio.TimeoutError) as e" *)
CaughtByRequest(c) ==
    AiohttpIsSubclass(c, "ClientError") \/ AiohttpIsSubclass(c, "TimeoutError")

(* AiohttpBackend.request(config) up to "await self._session.request" *)
AiohttpRequest(url) ==
    call' = IF session = "None"
            THEN [op |-> "request", arg |-> url, pc |-> "done",
                  result |-> CallRaised("RuntimeError",
                                        <<"Backend not initialized">>, "None")]
            ELSE [op |-> "request", arg |-> url, pc |-> "sending",
                  result |-> NoOutcome]

(* "await self._session.request" raises e: inside the try block *)
AiohttpSendRaises(e) ==
    /\ call.op = "request"
    /\ call.pc = "sending"
    /\ call' = [call EXCEPT !.pc = "done",
                   !.result = IF CaughtByRequest(e)
                              THEN CallRaised("BackendError", <<"Request failed", e>>, e)
                              ELSE CallRaised(e, <<>>, "None")]

(* "await self._session.request" returns the response object: its head *)
AiohttpResponds(response) ==
    /\ call.op = "request"
    /\ call.pc = "sending"
    /\ call' = [call EXCEPT !.pc = "reading", !.result = CallReturned(response)]

(* "await response.read()" raises e: after the try block *)
AiohttpReadRaises(e) ==
    /\ call.op = "request"
    /\ call.pc = "reading"
    /\ call' = [call EXCEPT !.pc = "done", !.result = CallRaised(e, <<>>, "None")]

(* "await response.read()" returns and the NormalizedResponse is built *)
AiohttpReadReturns ==
    /\ call.op = "request"
    /\ call.pc = "reading"
    /\ call' = [call EXCEPT !.pc = "done",
                   !.result = CallReturned(Append(call.result.value, call.arg))]

NoComponents ==
    /\ hm = HeaderManagerInit(FALSE, <<>>, "None", <<>>)
    /\ importable = {}
    /\ call = NoCall

----------------------------------------------------------------------------
(* ParallelRequests with a RequestsBackend *)

MaxBatch == 2           \* URLs of one batch

Urls == {"a", "b"}

(* a URL with another scheme than http or https *)
MalformedUrl == "ftp://c"

(* re.match(r"^https?://.+", url): "a" and "b" stand for http(s) URLs *)
MatchesHttpPattern(url) == url \in Urls

(* validate_url(url): True, or ValidationError *)
ValidateUrl(url) ==
    IF MatchesHttpPattern(url) THEN [kind |-> "ok", cls |-> "None"]
    ELSE [kind |-> "exc", cls |-> "ValidationError"]
Keys == {"x", "y"}

(* what the server may answer: <<status code, content type, body>> *)
Responses == { <<"200", "json", "b1">>, <<"200", "text", "b2">>,
               <<"500", "text", "b3">> }

ReturnTypes == {"json", "text"}

(* __init__: the attributes of the client; rate_limit = 0 stands for None *)
ParallelRequestsInit(c, m, rate_limit, burst, rnf) ==
    [backend |-> "RequestsBackend", concurrency |-> c, max_retries |-> m,
     rate_limit |-> rate_limit, rate_limit_burst |-> burst,
     return_none_on_failure |-> rnf]

HasRateLimiter == client.rate_limit # 0

NoRequest ==
    [pc |-> "idle", single_url |-> FALSE, url_list |-> <<>>, has_keys |-> FALSE,
     keys |-> <<>>, parse_func |-> FALSE, parse_strict |-> FALSE,
     return_type |-> "json",
     called_in |-> "Uninitialized"]

NoReturn ==
    [kind |-> "none", value |-> NoResult, list |-> <<>>, dict |-> <<>>,
     exc |-> NoError, message |-> <<>>, failures |-> <<>>, successes |-> 0,
     total |-> 0]

NoClient ==
    /\ client = ParallelRequestsInit(1, 0, 0, 1, FALSE)
    /\ session = "None"
    /\ lifecycle = "Uninitialized"
    /\ req = NoRequest
    /\ ret = NoReturn
    /\ inflight = {}
    /\ completed = <<>>

NumItems == Len(req.url_list)

Items == 1..NumItems

IsDone(t) == rpc[t] \in {"returned", "raised"}

(* the order in which the tasks of the batch complete *)
CompletedUpdate(t) ==
    completed' = IF IsDone(t)' /\ ~IsDone(t) THEN Append(completed, t) ELSE completed

(* Backend.__aenter__ through ParallelRequests.__aenter__ *)
ClientEnter ==
    /\ req.pc # "gather"
    /\ client.backend # "None"
    /\ session' = "Session"
    /\ lifecycle' = "Open"
    /\ UNCHANGED <<client, req, ret, inflight, completed, proxyVars, taken, compVars>>

BackendCloseKeepsSession ==
    /\ session' = session
    /\ lifecycle' = "Closed"

(* Backend.close: the session is dropped if there is one *)
BackendClose ==
    /\ session' = IF session # "None" THEN "None" ELSE session
    /\ lifecycle' = "Closed"

(* ParallelRequests.__aexit__: the scope that was entered is left, also
   after close() was called inside it *)
ClientExit ==
    /\ req.pc # "gather"
    /\ lifecycle \in {"Open", "Closed"}
    /\ client.backend # "None"
    /\ BackendClose
    /\ UNCHANGED <<client, req, ret, inflight, completed, proxyVars, taken, compVars>>

(* ParallelRequests.close *)
ClientClose ==
    /\ req.pc # "gather"
    /\ client.backend # "None"
    /\ BackendClose
    /\ UNCHANGED <<client, req, ret, inflight, completed, proxyVars, taken, compVars>>

(* raise ConfigurationError(message) *)
ConfigurationError(message) ==
    [NoReturn EXCEPT !.kind = "raise", !.exc = Error("ConfigurationError", 0),
                     !.message = message]

BackendNotInitialized == <<"Backend not initialized">>

(* f"Number of keys ({len(keys)}) must match number of URLs ({len(url_list)})" *)
KeysMismatchMessage(keys, urls) ==
    <<"Number of keys", Len(keys), "must match number of URLs", Len(urls)>>

KeysMismatchIgnored(has_keys, keys, urls) == FALSE

(* "keys is not None and len(keys) != len(url_list)" *)
KeysMismatch(has_keys, keys, urls) == has_keys /\ Len(keys) # Len(urls)

(* request(): from the call to the await of asyncio.gather, where one task
   per URL is created; each task runs _execute_request up to the call of
   make_request by self._retry_strategy.execute.
   parse_strict tells which parse_func was given: one that raises TypeError
   on None, as "lambda d: d[...]" does, or one that accepts every value *)
RequestWith(single, urls, has_keys, keys, parse_func, parse_strict, return_type) ==
    /\ req.pc # "gather"
    /\ LET r == [pc |-> "gather", single_url |-> single, url_list |-> urls,
                 has_keys |-> has_keys, keys |-> keys, parse_func |-> parse_func,
                 parse_strict |-> parse_strict,
                 return_type |-> return_type, called_in |-> lifecycle]
       IN  IF client.backend = "None" \/ KeysMismatch(has_keys, keys, urls)
           THEN /\ req' = [r EXCEPT !.pc = "raised"]
                /\ ret' = IF client.backend = "None"
                          THEN ConfigurationError(BackendNotInitialized)
                          ELSE ConfigurationError(KeysMismatchMessage(keys, urls))
                /\ RetryExecuteAll({})
           ELSE /\ req' = r
                /\ ret' = NoReturn
                /\ RetryExecuteAll(1..Len(urls))
    /\ completed' = <<>>
    /\ UNCHANGED <<config, client, session, lifecycle, inflight, proxyVars, taken, compVars>>

(* request() without a parse_func or with one that accepts every value *)
Request(single, urls, has_keys, keys, parse_func, return_type) ==
    RequestWith(single, urls, has_keys, keys, parse_func, FALSE, return_type)

(* the exception object e raised in the task of item t: two tasks never
   raise the same object *)
RaisedIn(t, e) == [e EXCEPT !.task = t]

(* backend.request up to its first await: without a session it raises at
   once, otherwise the request is in flight *)
BackendRequest(t) ==
    IF session = "None"
    THEN /\ RetryOnError(t, RaisedIn(t, Error("RuntimeError", calls[t])))
         /\ UNCHANGED inflight
    ELSE /\ inflight' = inflight \cup {t}
         /\ UNCHANGED retryVars

(* make_request under the rate limiter: the body of the async with block *)
LimitedBody(t, s1) ==
    /\ sem' = IF session = "None" THEN SemRelease(s1) ELSE s1
    /\ lpc' = [lpc EXCEPT ![t] = IF session = "None" THEN "idle" ELSE "inside"]
    /\ BackendRequest(t)

(* make_request is invoked by execute: it enters the rate limiter, or the
   null context when there is none *)
MakeRequest(t) ==
    /\ req.pc = "gather"
    /\ t \in Items
    /\ rpc[t] = "call"
    /\ lpc[t] = "idle"
    /\ t \notin inflight
    /\ IF HasRateLimiter
       THEN LimiterAcquire(t, LimitedBody)
       ELSE /\ BackendRequest(t)
            /\ UNCHANGED <<limiterVars, bucketVars>>
    /\ CompletedUpdate(t)

(* the task resumes in the rate limiter with a slot *)
MakeRequestGranted(t) ==
    /\ t \in Items
    /\ LimiterGranted(t, LimitedBody)
    /\ CompletedUpdate(t)

(* the task resumes in the rate limiter after waiting for tokens *)
MakeRequestBucketResume(t) ==
    /\ t \in Items
    /\ LimiterBucketResume(t, LimitedBody)
    /\ CompletedUpdate(t)

(* backend.request is over: it returned the response of the server for the
   URL of item t (ok), which NormalizedResponse.url names, or raised
   BackendError; make_request leaves the rate limiter and execute goes on *)
BackendReturns(t, ok, response) ==
    /\ t \in inflight
    /\ inflight' = inflight \ {t}
    /\ IF ok THEN RetryOnSuccess(t, Append(response, req.url_list[t]))
             ELSE RetryOnError(t, RaisedIn(t, Error("BackendError", calls[t])))
    /\ IF HasRateLimiter THEN LimiterExit(t) ELSE UNCHANGED <<limiterVars, bucketVars>>
    /\ CompletedUpdate(t)

(* the backoff sleep of a task is over *)
TaskWake(t) ==
    /\ t \in Items
    /\ RetryWake(t)
    /\ CompletedUpdate(t)

(* _parse_response: the value of a response under the return type; parsed
   JSON and decoded text of the same body are different values, and the body
   is that of the URL requested *)
ParseResponse(response, return_type) ==
    IF return_type = "json"
    THEN IF response[2] = "json" THEN <<"json", response[3], response[4]>> ELSE PyNone
    ELSE <<"text", response[3], response[4]>>

(* what the task of item t returned or raised *)
TaskOutcome(t) ==
    IF rpc[t] = "returned"
    THEN Returned(ParseResponse(rresult[t].val, req.return_type))
    ELSE rresult[t]

GatherDoneOnFirstException == \E t \in Items : rpc[t] = "raised"

(* asyncio.gather with return_exceptions=True is over when every task is *)
GatherDone == \A t \in Items : IsDone(t)

GatherResultsInCompletionOrder ==
    [i \in Items |-> IF i <= Len(completed) THEN TaskOutcome(completed[i]) ELSE NoResult]

(* the list asyncio.gather returns: the outcomes in the order of the tasks *)
GatherResults == [i \in Items |-> TaskOutcome(i)]

(* the caller-supplied parse_func raises on value v *)
ParseFuncRaises(parse_strict, v) == parse_strict /\ v = PyNone

(* the value of a caller-supplied parse_func that returns *)
ApplyParseFunc(v) == <<"f">> \o v

IsException(r) == r.kind = "exc"

ProcessedResultsParsingPlaceholders(results, rnf, parse_func) ==
    [i \in 1..Len(results) |->
        IF IsException(results[i])
        THEN IF rnf
             THEN Returned(IF parse_func THEN ApplyParseFunc(PyNone) ELSE PyNone)
             ELSE results[i]
        ELSE IF parse_func THEN Returned(ApplyParseFunc(results[i].val))
        ELSE results[i]]

ProcessedResultsKeepingExceptions(results, rnf, parse_func) ==
    [i \in 1..Len(results) |->
        IF IsException(results[i]) THEN results[i]
        ELSE IF parse_func THEN Returned(ApplyParseFunc(results[i].val))
        ELSE results[i]]

(* processed_results after the loop over enumerate(results) *)
ProcessedResults(results, rnf, parse_func) ==
    [i \in 1..Len(results) |->
        IF IsException(results[i])
        THEN IF rnf THEN Returned(PyNone) ELSE results[i]
        ELSE IF parse_func THEN Returned(ApplyParseFunc(results[i].val))
        ELSE results[i]]

FailureDetails(url, error) == [url |-> url, error |-> error, attempt |-> 0]

LastIndex(S) == CHOOSE i \in S : \A j \in S : j <= i

FailuresFirstWins(results, urls, rnf) ==
    LET failed == {i \in 1..Len(results) : IsException(results[i]) /\ ~rnf}
    IN  [u \in {urls[i] : i \in failed} |->
            FailureDetails(u, results[CHOOSE i \in failed :
                /\ urls[i] = u
                /\ \A j \in failed : urls[j] = u => i <= j].err)]

(* failures after the loop: a dict keyed by URL, a later failure of the same
   URL replaces the earlier one *)
Failures(results, urls, rnf) ==
    LET failed == {i \in 1..Len(results) : IsException(results[i]) /\ ~rnf}
    IN  [u \in {urls[i] : i \in failed} |->
            FailureDetails(u, results[LastIndex({i \in failed : urls[i] = u})].err)]

(* len([r for r in results if not isinstance(r, Exception)]) *)
Successes(results) == Cardinality({i \in 1..Len(results) : ~IsException(results[i])})

DictZipFirstWins(keys, values) ==
    [k \in {keys[i] : i \in 1..Len(keys)} |->
        values[CHOOSE i \in 1..Len(keys) :
                  keys[i] = k /\ \A j \in 1..Len(keys) : keys[j] = k => i <= j]]

DictZipMisaligned(keys, values) ==
    [k \in {keys[i] : i \in 1..Len(keys)} |->
        values[(LastIndex({i \in 1..Len(keys) : keys[i] = k}) % Len(values)) + 1]]

(* dict(zip(keys, processed_results, strict=True)) *)
DictZip(keys, values) ==
    [k \in {keys[i] : i \in 1..Len(keys)} |->
        values[LastIndex({i \in 1..Len(keys) : keys[i] = k})]]

(* f"Partial failure: {len(failures)} of {len(url_list)} requests failed" *)
PartialFailureMessage(failures, urls) ==
    <<"Partial failure", Cardinality(DOMAIN failures), "of", Len(urls),
      "requests failed">>

ReturnShapeNeverBare(single_url, has_keys, n) ==
    IF has_keys THEN "dict" ELSE "list"

ReturnShapeByCount(single_url, has_keys, n) ==
    IF has_keys THEN "dict" ELSE IF n = 1 THEN "value" ELSE "list"

(* "if single_url: ... elif keys is not None: ... else: ...": what request()
   returns for a batch of n items *)
ReturnShape(single_url, has_keys, n) ==
    IF single_url THEN "value" ELSE IF has_keys THEN "dict" ELSE "list"

(* request(): from the return of asyncio.gather to the return or raise; an
   exception of parse_func(result) in the loop over the results leaves
   request() as it is *)
RequestFinish ==
    /\ req.pc = "gather"
    /\ GatherDone
    /\ LET results == GatherResults
           rnf == client.return_none_on_failure
           processed_results == ProcessedResults(results, rnf, req.parse_func)
           failures == Failures(results, req.url_list, rnf)
           shape == ReturnShape(req.single_url, req.has_keys, NumItems)
           rejected == {i \in Items : /\ ~IsException(results[i])
                                      /\ req.parse_func
                                      /\ ParseFuncRaises(req.parse_strict,
                                                         results[i].val)}
       IN  IF rejected # {}
           THEN /\ ret' = [NoReturn EXCEPT !.kind = "raise",
                                           !.exc = Error("TypeError", 0)]
                /\ req' = [req EXCEPT !.pc = "raised"]
           ELSE
           IF DOMAIN failures # {} /\ ~rnf
           THEN /\ ret' = [NoReturn EXCEPT !.kind = "raise",
                                           !.exc = Error("PartialFailureError", 0),
                                           !.message = PartialFailureMessage(
                                               failures, req.url_list),
                                           !.failures = failures,
                                           !.successes = Successes(results),
                                           !.total = Len(req.url_list)]
                /\ req' = [req EXCEPT !.pc = "raised"]
           ELSE /\ ret' = CASE shape = "value" ->
                                   [NoReturn EXCEPT !.kind = "value",
                                                    !.value = processed_results[1]]
                               [] shape = "dict" ->
                                   [NoReturn EXCEPT !.kind = "dict",
                                        !.dict = DictZip(req.keys, processed_results)]
                               [] shape = "list" ->
                                   [NoReturn EXCEPT !.kind = "list",
                                                    !.list = processed_results]
                /\ req' = [req EXCEPT !.pc = "returned"]
    /\ UNCHANGED <<client, session, lifecycle, inflight, completed, proxyVars, taken, compVars>>

----------------------------------------------------------------------------
(* RetryStrategy.execute on an arbitrary operation *)

Values == {<<"v1">>, <<"v2">>}
RaisedClasses == {"ValueError", "ConnectionError"}
ListedClasses == {"ValueError", "OSError"}

(* backoff_multiplier in ticks and jitter in percent: no jitter, the
   default, and one above 100 percent, where the clamp to 0 acts *)
Multipliers == {1, 2}
Jitters == {0, JitterPct, 150}

InitRetry ==
    /\ now = 0
    /\ \E m \in 0..MaxRetries, ro \in SUBSET ListedClasses, dro \in SUBSET ListedClasses,
          b \in Multipliers, j \in Jitters :
          config = [RetryConfig(m, ro, dro) EXCEPT !.backoff_multiplier = b,
                                                   !.jitter = j]
    /\ RetryInitTasks
    /\ bucket = TokenBucketInit(1, 1, 0)
    /\ BucketInitTasks
    /\ NoLimiter
    /\ NoClient
    /\ NoProxyManager
    /\ taken = 0
    /\ NoComponents

OpExecute == RetryExecute(1) /\ UNCHANGED <<now, bucketVars, limiterVars, clientVars, proxyVars, taken, compVars>>

(* the value the operation returns on its n-th invocation *)
ResultOf(v, n) == Append(v, ToString(n))

OpReturns == \E v \in Values : RetryOnSuccess(1, ResultOf(v, calls[1])) /\ UNCHANGED <<now, bucketVars, limiterVars, clientVars, proxyVars, taken, compVars>>

OpRaises ==
    \E c \in RaisedClasses : RetryOnError(1, Error(c, calls[1])) /\ UNCHANGED <<now, bucketVars, limiterVars, clientVars, proxyVars, taken, compVars>>

OpWake == RetryWake(1) /\ UNCHANGED <<now, bucketVars, limiterVars, clientVars, proxyVars, taken, compVars>>

RetryTick == Tick /\ UNCHANGED <<retryVars, bucketVars, limiterVars, clientVars, proxyVars, taken, compVars>>

NextRetry == OpExecute \/ OpReturns \/ OpRaises \/ OpWake \/ RetryTick

SpecRetry == InitRetry /\ [][NextRetry]_vars

----------------------------------------------------------------------------
(* Properties of RetryStrategy.execute *)

AllRetryable(es) == \A i \in 1..Len(es) : ShouldRetry(config, es[i])

LastOf(es) == es[Len(es)]

(* C5: an operation that fails with a retryable error on every invocation is
   invoked exactly max_retries + 1 times; execute then raises
   RetryExhaustedError with attempts = max_retries and last_error the error
   of the final invocation, and it raises nothing before that. *)
C5_RetryExhaustion ==
    (rpc[1] # "idle" /\ rresult[1].kind # "ok" /\ AllRetryable(errs[1])) =>
        /\ calls[1] <= config.max_retries + 1
        /\ rpc[1] = "raised" <=> Len(errs[1]) = config.max_retries + 1
        /\ rpc[1] = "raised" =>
              /\ calls[1] = config.max_retries + 1
              /\ rresult[1] = Raised(RetryExhaustedError(config.max_retries,
                                                          LastOf(errs[1])))
              /\ rresult[1].err.attempts = config.max_retries
              /\ LastOf(errs[1]).id = config.max_retries + 1

C5_Witness ==
    /\ config.max_retries = 2
    /\ rpc[1] = "raised"
    /\ AllRetryable(errs[1])
    /\ calls[1] = 3
    /\ rresult[1].err.cls = "RetryExhaustedError"

(* C6: when an invocation fails with an error matching the deny-list,
   execute has raised that very error, has not slept after it and has made
   no further invocation; if the first error is deny-listed the operation
   was invoked exactly once. *)
C6_DenyListShortCircuit ==
    (Len(errs[1]) > 0 /\ config.dont_retry_on # {}
        /\ IsInstance(LastOf(errs[1]), config.dont_retry_on)) =>
        /\ rpc[1] = "raised"
        /\ rresult[1] = Raised(LastOf(errs[1]))
        /\ calls[1] = Len(errs[1])
        /\ sleeps[1] = Len(errs[1]) - 1
        /\ (\A i \in 1..Len(errs[1]) : IsInstance(errs[1][i], config.dont_retry_on))
              => calls[1] = 1 /\ sleeps[1] = 0

C6_Witness ==
    /\ config.retry_on # {}
    /\ Len(errs[1]) = 1
    /\ IsInstance(errs[1][1], config.dont_retry_on)
    /\ IsInstance(errs[1][1], config.retry_on)
    /\ errs[1][1].cls = "ConnectionError"
    /\ rpc[1] = "raised"
    /\ calls[1] = 1

(* C21: when the operation has failed with retryable errors k-1 times and
   then succeeded, execute has invoked it exactly k times, has slept once
   after each failure and not after the success, and has returned the result
   of the k-th invocation; k is at most max_retries + 1 and no
   RetryExhaustedError is raised. *)
C21_SuccessAfterRetries ==
    (rresult[1].kind = "ok" /\ AllRetryable(errs[1])) =>
        LET k == Len(errs[1]) + 1
        IN  /\ k <= config.max_retries + 1
            /\ rpc[1] = "returned"
            /\ calls[1] = k
            /\ sleeps[1] = k - 1
            /\ \E v \in Values : rresult[1] = Returned(ResultOf(v, k))

C21_Witness ==
    /\ rresult[1].kind = "ok"
    /\ Len(errs[1]) = 2
    /\ AllRetryable(errs[1])
    /\ config.max_retries = 2
    /\ calls[1] = 3
    /\ now > 0

(* C22: the delay slept after the failed attempt a is never negative and
   lies between b*2^a*(1-j) and b*2^a*(1+j) for backoff_multiplier b and
   jitter j; with j = 0 it is exactly b*2^a, twice the delay of attempt
   a - 1.  Delays are in TimeScale-ths of a tick and j in percent. *)
C22_DelayWithinJitterBand ==
    [][(rpc[1] = "call" /\ rpc'[1] = "sleep") =>
          LET a == attempt[1]
              b == config.backoff_multiplier
              j == config.jitter
              delay == wake'[1] - now * TimeScale
          IN  /\ delay >= 0
              /\ 100 * delay >= b * Pow2(a) * TimeScale * (100 - j)
              /\ 100 * delay <= b * Pow2(a) * TimeScale * (100 + j)
              /\ j = 0 =>
                    /\ delay = b * Pow2(a) * TimeScale
                    /\ a > 0 => delay = 2 * (b * Pow2(a - 1) * TimeScale)]_vars

(* the second backoff sleep without jitter has just begun: twice the first *)
C22_Witness ==
    /\ rpc[1] = "sleep"
    /\ config.jitter = 0
    /\ config.backoff_multiplier = 2
    /\ attempt[1] = 1
    /\ sleeps[1] = 2
    /\ wake[1] = now * TimeScale + 4 * TimeScale

(* a jitter above 100 percent: the delay was clamped to 0 *)
C22_WitnessClamped ==
    /\ rpc[1] = "sleep"
    /\ config.jitter = 150
    /\ wake[1] = now * TimeScale

(* C37: in a run of execute that exhausts its retries with max_retries = m
   exactly m backoff sleeps occur, each between two consecutive invocations:
   none before the first invocation and none after the last failed one,
   from which execute goes directly to RetryExhaustedError. *)
C37_SleepsBetweenInvocations ==
    /\ [](AllRetryable(errs[1]) =>
            /\ rpc[1] = "idle" => sleeps[1] = 0 /\ calls[1] = 0
            /\ rpc[1] = "call" => sleeps[1] = calls[1] - 1
            /\ rpc[1] = "sleep" =>
                  sleeps[1] = calls[1] /\ calls[1] <= config.max_retries
            /\ rpc[1] = "raised" =>
                  /\ sleeps[1] = config.max_retries
                  /\ calls[1] = config.max_retries + 1)
    /\ [][(rpc'[1] = "raised" /\ rpc[1] # "raised") =>
             rpc[1] = "call" /\ sleeps'[1] = sleeps[1]]_vars

(* retries exhausted after three invocations and two sleeps *)
C37_Witness ==
    /\ rpc[1] = "raised"
    /\ rresult[1].err.cls = "RetryExhaustedError"
    /\ config.max_retries = 2
    /\ sleeps[1] = 2
    /\ calls[1] = 3
    /\ config.jitter = 0

(* the classification of the claim: not on the deny-list, and on the
   allow-list when there is one *)
Retryable(e) ==
    /\ ~IsInstance(e, config.dont_retry_on)
    /\ config.retry_on = {} \/ IsInstance(e, config.retry_on)

(* C20: a failure is treated as retryable exactly when it does not match the
   deny-list and (there is no allow-list or it matches the allow-list), the
   deny-list winning for an error on both lists.  A non-retryable failure is
   the last invocation: execute has raised that very error and invoked the
   operation no further.  A retryable failure is never re-raised as it is:
   execute sleeps and invokes again, and raises only RetryExhaustedError
   once max_retries + 1 invocations have failed. *)
C20_RetryClassification ==
    \A i \in 1..Len(errs[1]) :
        IF Retryable(errs[1][i])
        THEN /\ i = Len(errs[1]) => rresult[1] # Raised(errs[1][i])
             /\ (i = Len(errs[1]) /\ i <= config.max_retries) =>
                    /\ rpc[1] # "raised"
                    /\ calls[1] \in {i, i + 1}
                    /\ rpc[1] = "sleep" <=> calls[1] = i
             /\ (i = Len(errs[1]) /\ i > config.max_retries) =>
                    /\ rpc[1] = "raised"
                    /\ rresult[1].err.cls = "RetryExhaustedError"
        ELSE /\ i = Len(errs[1])
             /\ rpc[1] = "raised"
             /\ rresult[1] = Raised(errs[1][i])
             /\ calls[1] = i

(* a first error on the allow-list was retried, a second one that is on
   neither list was re-raised after two invocations *)
C20_Witness ==
    /\ config.retry_on = {"OSError"}
    /\ config.dont_retry_on = {}
    /\ Len(errs[1]) = 2
    /\ errs[1][1].cls = "ConnectionError"
    /\ errs[1][2].cls = "ValueError"
    /\ rpc[1] = "raised"
    /\ rresult[1] = Raised(errs[1][2])
    /\ calls[1] = 2

----------------------------------------------------------------------------
(* A TokenBucket used by concurrent callers *)

InitBucket ==
    /\ now = 0
    /\ \E rate \in 1..MaxRate, burst \in 1..MaxBurst :
          bucket = TokenBucketInit(rate, burst, 0)
    /\ BucketInitTasks
    /\ NoRetry
    /\ NoLimiter
    /\ NoClient
    /\ NoProxyManager
    /\ taken = 0
    /\ NoComponents

MaxCallers == 2     \* concurrent callers of the bucket

Callers == 1..MaxCallers

(* a caller whose acquire(n) returns in this step has taken n tokens *)
TakenBy(t, n) == taken' = IF bpc'[t] = "idle" THEN taken + n ELSE taken

CallAcquire ==
    \E t \in Callers, n \in 1..bucket.burst :
        /\ BucketAcquire(t, n)
        /\ TakenBy(t, n)
        /\ UNCHANGED <<now, retryVars, limiterVars, clientVars, proxyVars, compVars>>

CallResume ==
    \E t \in Callers :
        /\ BucketResume(t)
        /\ TakenBy(t, bwant[t])
        /\ UNCHANGED <<now, retryVars, limiterVars, clientVars, proxyVars, compVars>>

CallAvailable == BucketAvailable /\ UNCHANGED <<now, retryVars, limiterVars, clientVars, proxyVars, taken, compVars>>

BucketTick == Tick /\ UNCHANGED <<retryVars, bucketVars, limiterVars, clientVars, proxyVars, taken, compVars>>

NextBucket == CallAcquire \/ CallResume \/ CallAvailable \/ BucketTick

SpecBucket == InitBucket /\ [][NextBucket]_vars

(* C9: the token count of a TokenBucket stays within [0, burst] under any
   interleaving of acquire(n), 1 <= n <= burst, and available() calls and
   any passage of time. *)
C9_TokensWithinBurst ==
    /\ bucket.tokens >= 0
    /\ bucket.tokens <= bucket.burst * TokenUnit

C9_Witness ==
    /\ bucket.burst = 2
    /\ bucket.tokens = 0
    /\ bucket.last_update > 0
    /\ \E t \in Tasks : bpc[t] = "sleep" /\ bwant[t] = 2

(* C27: with any number of callers in acquire at the same time no update
   is lost: a step in which an acquire(n) call returns lowers the refilled
   token count by exactly n and no other step lowers it, so the tokens
   taken by the calls that have returned by time t never exceed
   burst + rate*t (for acquire(1), the number of those calls). *)
C27_NoLostUpdate ==
    /\ [](/\ bucket.tokens + taken * TokenUnit
              <= bucket.burst * TokenUnit
                    + bucket.requests_per_second * bucket.last_update
          /\ taken * TokenUnit
              <= bucket.burst * TokenUnit + bucket.requests_per_second * now)
    /\ [][now' = now =>
             bucket'.tokens = RefillTokens(bucket, now).tokens
                                 - (taken' - taken) * TokenUnit]_vars

(* calls have returned with every token the bucket could give by now, and
   two callers are waiting at the same time *)
C27_Witness ==
    /\ bucket.burst = 1
    /\ bucket.requests_per_second = 1
    /\ taken = 2
    /\ now = 2
    /\ bucket.tokens = 0
    /\ bpc[1] = "sleep"
    /\ bpc[2] = "sleep"

(* the refilled count min(burst, tokens + elapsed*rate) at time t, in
   TokenUnit-ths of a token *)
Refilled(b, t) ==
    Min(b.burst * TokenUnit, b.tokens + (t - b.last_update) * b.requests_per_second)

(* C29: acquire(n) called when the refilled count is at least n returns
   without suspending and lowers that count by exactly n; available()
   returns the refilled count truncated to an integer and consumes nothing,
   so that another available() at the same time returns the same value. *)
C29_AcquireAndAvailable ==
    [][/\ \A t \in Callers, n \in 1..bucket.burst :
             (Refilled(bucket, now) >= n * TokenUnit /\ BucketAcquire(t, n)) =>
                 /\ bpc'[t] = "idle"
                 /\ bucket'.tokens = Refilled(bucket, now) - n * TokenUnit
                 /\ taken' = taken + n
       /\ (now' = now /\ BucketAvailable) =>
             /\ bucket'.tokens = Refilled(bucket, now)
             /\ AvailableTokens(bucket') = Refilled(bucket, now) \div TokenUnit
             /\ AvailableTokens(RefillTokens(bucket', now)) = AvailableTokens(bucket')
             /\ RefillTokens(bucket', now) = bucket'
             /\ taken' = taken]_vars

(* the bucket was refilled at the present time, after tokens were taken, to
   a count that is not a whole number of tokens, and nobody waits *)
C29_Witness ==
    /\ bucket.last_update = now
    /\ now > 0
    /\ taken > 0
    /\ bucket.tokens % TokenUnit = 1
    /\ AvailableTokens(bucket) = 1
    /\ \A t \in Callers : bpc[t] = "idle"

----------------------------------------------------------------------------
(* A TokenBucket whose callers are resumed when their sleep is due: the
   event loop runs a timer that is due before the clock moves on.  Calls
   are made up to MaxArrival, and the clock runs until every call that can
   have been made has had the time to be served at the lowest rate. *)

MaxArrival == 1     \* the last time at which acquire is called

LiveHorizon == MaxArrival + MaxCallers * MaxBurst * TokenUnit

Due(t) == bpc[t] = "sleep" /\ now * TimeScale >= bwake[t]

liveFrame == <<retryVars, limiterVars, clientVars, proxyVars, taken, compVars>>

LiveAcquire ==
    \E t \in Callers, n \in 1..bucket.burst :
        /\ now <= MaxArrival
        /\ BucketAcquire(t, n)
        /\ UNCHANGED <<now, liveFrame>>

LiveResume == \E t \in Callers : BucketResume(t) /\ UNCHANGED <<now, liveFrame>>

LiveTick ==
    /\ now < LiveHorizon
    /\ \A t \in Callers : ~Due(t)
    /\ now' = now + 1
    /\ UNCHANGED <<bucketVars, liveFrame>>

NextBucketLive == LiveAcquire \/ LiveResume \/ LiveTick

SpecBucketLive ==
    /\ InitBucket
    /\ [][NextBucketLive]_vars
    /\ WF_vars(LiveResume)
    /\ WF_vars(LiveTick)

(* C28: every acquire(n) call with 1 <= n <= burst on a bucket with a rate
   above 0 returns in the end, with any number of callers contending for the
   bucket, when time advances and each waiter is resumed once its sleep is
   due. *)
C28_AcquireReturns ==
    \A t \in Callers : (bpc[t] = "sleep") ~> (bpc[t] = "idle")

(* a caller sleeps for the second time in one call: the tokens it waited
   for were taken by another caller *)
C28_Witness ==
    /\ bucket.burst = 2
    /\ bucket.requests_per_second = 1
    /\ now > MaxArrival + 2
    /\ bpc[1] = "sleep"
    /\ bwant[1] = 2
    /\ bpc[2] = "idle"
    /\ bucket.last_update = now
    /\ bucket.tokens > 0

----------------------------------------------------------------------------
(* An AsyncRateLimiter used by concurrent tasks *)

InitLimiter ==
    /\ now = 0
    /\ \E rate \in 1..MaxRate, burst \in 1..MaxBurst, c \in 1..MaxConc :
          /\ rlconfig = RateLimitConfig(rate, burst, c)
          /\ bucket = TokenBucketInit(rate, burst, 0)
          /\ sem = SemaphoreInit(c)
    /\ BucketInitTasks
    /\ LimiterInitTasks
    /\ NoRetry
    /\ NoClient
    /\ NoProxyManager
    /\ taken = 0
    /\ NoComponents

limiterFrame == <<now, client, session, lifecycle, req, ret, completed, proxyVars, taken, compVars>>

TaskAcquire == \E t \in Tasks : LimiterAcquire(t, PlainBody) /\ UNCHANGED limiterFrame

TaskGranted == \E t \in Tasks : LimiterGranted(t, PlainBody) /\ UNCHANGED limiterFrame

TaskBucketResume ==
    \E t \in Tasks : LimiterBucketResume(t, PlainBody) /\ UNCHANGED limiterFrame

TaskExit ==
    \E t \in Tasks : LimiterExit(t) /\ UNCHANGED <<limiterFrame, retryVars, inflight>>

LimiterTick == Tick /\ UNCHANGED <<retryVars, bucketVars, limiterVars, clientVars, proxyVars, taken, compVars>>

NextLimiter == TaskAcquire \/ TaskGranted \/ TaskBucketResume \/ TaskExit \/ LimiterTick

SpecLimiter == InitLimiter /\ [][NextLimiter]_vars

Inside == {t \in Tasks : lpc[t] = "inside"}

(* the tasks that hold a slot of the semaphore: inside the context, or
   waiting for tokens on their way in *)
SlotHolders == {t \in Tasks : lpc[t] \in {"bucket", "inside"}}

(* C7: the number of tasks inside the acquired context of an
   AsyncRateLimiter never exceeds max_concurrency, however many tasks enter
   acquire() concurrently; nor does the number of tasks holding a slot. *)
C7_ConcurrencyCap ==
    /\ Cardinality(Inside) <= rlconfig.max_concurrency
    /\ Cardinality(SlotHolders) <= rlconfig.max_concurrency

C7_Witness ==
    /\ Cardinality(Inside) = rlconfig.max_concurrency
    /\ \E t \in Tasks : lpc[t] = "wait_sem" /\ t \notin sem.granted
    /\ sem.value = 0

(* the tasks a slot of the semaphore is accounted to: the slot holders and
   the waiters that release() has handed a slot and that have not resumed *)
SlotOwners == SlotHolders \cup sem.granted

----------------------------------------------------------------------------
(* A ParallelRequests client: construction, session scope and one batch *)

ClientRates == {0, 1}   \* rate_limit: None or one token part per tick
ClientBurst == 1        \* rate_limit_burst
ClientRetries == {0, 1} \* max_retries

SeqsUpTo(S, n) == UNION {[1..k -> S] : k \in 0..n}

(* the state after ParallelRequests(concurrency=c, max_retries=m,
   rate_limit=rate, rate_limit_burst=ClientBurst, return_none_on_failure=rnf);
   without a rate limit no AsyncRateLimiter exists and bucket, sem and
   rlconfig are never read *)
ClientInit(c, m, rate, rnf) ==
    /\ now = 0
    /\ client = ParallelRequestsInit(c, m, rate, ClientBurst, rnf)
    /\ config = RetryConfig(m, {}, {})
    /\ rlconfig = RateLimitConfig(Max(rate, 1), ClientBurst, c)
    /\ bucket = TokenBucketInit(Max(rate, 1), ClientBurst, 0)
    /\ sem = SemaphoreInit(c)
    /\ RetryInitTasks
    /\ BucketInitTasks
    /\ LimiterInitTasks
    /\ session = "None"
    /\ lifecycle = "Uninitialized"
    /\ req = NoRequest
    /\ ret = NoReturn
    /\ inflight = {}
    /\ completed = <<>>
    /\ NoProxyManager
    /\ taken = 0
    /\ NoComponents

Init ==
    \E c \in 1..MaxConc, m \in ClientRetries, rate \in ClientRates, rnf \in BOOLEAN :
        ClientInit(c, m, rate, rnf)

lifeFrame == <<now, retryVars, bucketVars, limiterVars>>

(* the session scope is entered before the batch is requested; it is left,
   or the client closed, before the batch or once request() is over *)
Enter == req.pc = "idle" /\ ClientEnter /\ UNCHANGED lifeFrame

Exit == ClientExit /\ UNCHANGED lifeFrame

Close == ClientClose /\ UNCHANGED lifeFrame

(* batches of up to MaxBatch times the same URL *)
SameUrlLists == {[i \in 1..n |-> "a"] : n \in 0..MaxBatch}

(* request(url) with urls a string; the client is called once *)
CallRequestSingle ==
    /\ req.pc = "idle"
    /\ Request(TRUE, <<"a">>, FALSE, <<>>, FALSE, "json")
    /\ UNCHANGED <<now, bucketVars, limiterVars>>

(* a batch with a URL that validate_url rejects *)
MalformedLists == {<<MalformedUrl>>}

(* request(urls) with urls a list *)
CallRequestList ==
    \E urls \in SameUrlLists \cup MalformedLists :
        /\ req.pc = "idle"
        /\ Request(FALSE, urls, FALSE, <<>>, FALSE, "json")
        /\ UNCHANGED <<now, bucketVars, limiterVars>>

(* request(urls, keys=keys) with a number of keys that is not the number of
   URLs *)
CallRequestKeysMismatch ==
    \E single \in BOOLEAN, urls \in SameUrlLists, keys \in SeqsUpTo(Keys, MaxBatch) :
        /\ req.pc = "idle"
        /\ single => urls = <<"a">>
        /\ Len(keys) # Len(urls)
        /\ Request(single, urls, TRUE, keys, FALSE, "json")
        /\ UNCHANGED <<now, bucketVars, limiterVars>>

taskFrame == <<now, client, session, lifecycle, req, ret, proxyVars, taken, compVars>>

RunMakeRequest == \E t \in Tasks : MakeRequest(t) /\ UNCHANGED taskFrame

RunGranted == \E t \in Tasks : MakeRequestGranted(t) /\ UNCHANGED taskFrame

RunBucketResume == \E t \in Tasks : MakeRequestBucketResume(t) /\ UNCHANGED taskFrame

(* the answers tried where the value returned does not matter: one with a
   2xx status and one with a 5xx status *)
StatusResponses == { <<"200", "json", "b1">>, <<"500", "text", "b3">> }

RunBackendReturns ==
    \E t \in Tasks, response \in StatusResponses :
        BackendReturns(t, TRUE, response) /\ UNCHANGED taskFrame

RunBackendRaises ==
    \E t \in Tasks : BackendReturns(t, FALSE, <<>>) /\ UNCHANGED taskFrame

RunTaskWake ==
    \E t \in Tasks :
        /\ TaskWake(t)
        /\ UNCHANGED <<taskFrame, bucketVars, limiterVars, inflight>>

Finish == RequestFinish /\ UNCHANGED <<now, retryVars, bucketVars, limiterVars>>

(* the clock advances; only the time that something waits for is modelled:
   a task sleeps or the bucket is refilling *)
ClientTick ==
    /\ req.pc = "gather"
    /\ \/ \E t \in Items : rpc[t] = "sleep" \/ bpc[t] = "sleep"
       \/ HasRateLimiter /\ bucket.tokens < bucket.burst * TokenUnit
    /\ Tick
    /\ UNCHANGED <<retryVars, bucketVars, limiterVars, clientVars, proxyVars, taken, compVars>>

Next ==
    \/ Enter \/ Exit \/ Close
    \/ CallRequestSingle \/ CallRequestList \/ CallRequestKeysMismatch
    \/ RunMakeRequest \/ RunGranted \/ RunBucketResume
    \/ RunBackendReturns \/ RunBackendRaises \/ RunTaskWake
    \/ Finish
    \/ ClientTick

Spec == Init /\ [][Next]_vars

----------------------------------------------------------------------------
(* The result of a batch: a client without rate limit and without retries, *)
(* called with every combination of URLs, keys, parse_func and return type *)

InitBatch == \E rnf \in BOOLEAN : ClientInit(1, 0, 0, rnf)

(* the URL lists and key lists tried: names are interchangeable, so the
   first URL is "a" and the first key "x" *)
UrlLists == {urls \in SeqsUpTo(Urls, MaxBatch) : urls = <<>> \/ urls[1] = "a"}

KeyLists == {keys \in SeqsUpTo(Keys, MaxBatch) : keys = <<>> \/ keys[1] = "x"}

(* request(url, keys=..., parse_func=..., return_type=...) with urls a string *)
BatchRequestSingle ==
    \E parse_func \in BOOLEAN, parse_strict \in BOOLEAN, rt \in ReturnTypes,
       has_keys \in BOOLEAN, keys \in KeyLists :
        /\ req.pc = "idle"
        /\ has_keys \/ keys = <<>>
        /\ parse_strict => parse_func
        /\ RequestWith(TRUE, <<"a">>, has_keys, keys, parse_func, parse_strict, rt)
        /\ UNCHANGED <<now, bucketVars, limiterVars>>

(* request(urls, keys=..., parse_func=..., return_type=...) with urls a list *)
BatchRequestList ==
    \E urls \in UrlLists, parse_func \in BOOLEAN, parse_strict \in BOOLEAN,
       rt \in ReturnTypes, has_keys \in BOOLEAN, keys \in KeyLists :
        /\ req.pc = "idle"
        /\ has_keys \/ keys = <<>>
        /\ parse_strict => parse_func
        /\ RequestWith(FALSE, urls, has_keys, keys, parse_func, parse_strict, rt)
        /\ UNCHANGED <<now, bucketVars, limiterVars>>

(* backend.request returns any of the answers *)
BatchBackendReturns ==
    \E t \in Tasks, response \in Responses :
        BackendReturns(t, TRUE, response) /\ UNCHANGED taskFrame

NextBatch ==
    \/ Enter \/ Exit \/ Close
    \/ BatchRequestSingle \/ BatchRequestList
    \/ RunMakeRequest
    \/ BatchBackendReturns \/ RunBackendRaises
    \/ Finish

SpecBatch == InitBatch /\ [][NextBatch]_vars

----------------------------------------------------------------------------
(* Properties of request(): the tasks of a batch *)

(* the positions of the batch whose task ended with an exception *)
FailedItems == {i \in Items : rresult[i].kind = "exc"}

(* request() is over, it got past the backend and keys checks and the
   parse_func, if any, raised nothing *)
BatchOver ==
    /\ req.pc \in {"returned", "raised"}
    /\ ret.exc.cls \notin {"ConfigurationError", "TypeError"}

(* C3: a failing item does not end its siblings: when request() is over,
   by return or by PartialFailureError, every task of the batch has run to
   its own result or exception, no backend request is in flight and no task
   is left in the rate limiter or in a backoff sleep. *)
C3_AllTasksComplete ==
    BatchOver =>
        /\ \A t \in Items : IsDone(t) /\ rresult[t].kind \in {"ok", "exc"}
        /\ inflight = {}
        /\ \A t \in Items : lpc[t] = "idle" /\ bpc[t] = "idle"
        /\ Len(completed) = NumItems

C3_Witness ==
    /\ req.pc = "raised"
    /\ ret.exc.cls = "PartialFailureError"
    /\ NumItems = 2
    /\ completed = <<1, 2>>
    /\ rresult[1].kind = "exc"
    /\ rresult[2].kind = "ok"
    /\ calls[1] = 2

(* C8: the number of backend requests of a client in flight at the same
   time never exceeds its concurrency, whether or not rate_limit is set. *)
C8_InFlightWithinConcurrency == Cardinality(inflight) <= client.concurrency

(* C10: request() on a client that is not Open (never entered, exited or
   closed) raises ConfigurationError and no task calls the backend. *)
C10_NotOpenRaisesConfigurationError ==
    (req.pc # "idle" /\ req.called_in # "Open") =>
        /\ req.pc = "raised"
        /\ ret = ConfigurationError(BackendNotInitialized)
        /\ \A t \in Tasks : calls[t] = 0

----------------------------------------------------------------------------
(* Properties of request(): the result of a batch *)

(* what position i of the result holds when nothing is raised *)
ExpectedValue(i) ==
    IF rresult[i].kind = "exc" THEN PyNone
    ELSE LET v == ParseResponse(rresult[i].val, req.return_type)
         IN  IF req.parse_func THEN ApplyParseFunc(v) ELSE v

(* the value at position i comes from the URL at position i *)
FromUrlAt(v, i) == Len(v) >= 3 => v[Len(v)] = req.url_list[i]

(* C1: with return_none_on_failure off and a non-empty set F of failed
   positions, request() raises PartialFailureError whose failure map has
   |F| entries, whose successes is N - |F| and whose total is N. *)
C1_FailureMapPerItem ==
    (BatchOver /\ req.called_in = "Open" /\ ~client.return_none_on_failure
        /\ FailedItems # {}) =>
        /\ req.pc = "raised"
        /\ ret.exc.cls = "PartialFailureError"
        /\ Cardinality(DOMAIN ret.failures) = Cardinality(FailedItems)
        /\ ret.successes = NumItems - Cardinality(FailedItems)
        /\ ret.total = NumItems

(* C2: for a list of N URLs without keys, when request() returns, element i
   of the list is the outcome of URL i (its value, or None for a failed item
   under return_none_on_failure), in whatever order the tasks completed. *)
C2_ListInInputOrder ==
    (BatchOver /\ ~req.single_url /\ ~req.has_keys /\ req.pc = "returned") =>
        /\ ret.kind = "list"
        /\ Len(ret.list) = NumItems
        /\ \A i \in Items :
              /\ ret.list[i] = Returned(ExpectedValue(i))
              /\ FromUrlAt(ret.list[i].val, i)

C2_Witness ==
    /\ req.pc = "returned"
    /\ ret.kind = "list"
    /\ req.url_list = <<"a", "b">>
    /\ completed = <<2, 1>>
    /\ ret.list[1].val = <<"json", "b1", "a">>
    /\ ret.list[2].val = <<"json", "b1", "b">>

(* C4 as stated: with return_none_on_failure on, request() on N URLs does
   not raise for item failures and returns N positions or N keys, None for
   each failed item, the value for each successful one, no failure entry. *)
C4_NPositionsOrNKeys ==
    (BatchOver /\ req.called_in = "Open" /\ client.return_none_on_failure) =>
        /\ req.pc = "returned"
        /\ ret.failures = <<>>
        /\ ret.kind = "list" =>
              /\ Len(ret.list) = NumItems
              /\ \A i \in Items : ret.list[i] = Returned(ExpectedValue(i))
        /\ ret.kind = "value" => ret.value = Returned(ExpectedValue(1))
        /\ ret.kind = "dict" =>
              /\ Cardinality(DOMAIN ret.dict) = NumItems
              /\ \A i \in Items : ret.dict[req.keys[i]] = Returned(ExpectedValue(i))

(* C4, amended: with return_none_on_failure on, request() does not raise for
   item failures and records no failure entry; a list has N positions, a
   single URL string gives the bare value, and a mapping has one entry per
   distinct key (N entries when the keys are pairwise distinct) holding the
   outcome of the last position with that key; a failed item holds None and
   a successful item its value. *)
C4_GracefulDegradation ==
    (BatchOver /\ client.return_none_on_failure) =>
        /\ req.pc = "returned"
        /\ ret.failures = <<>>
        /\ ret.exc = NoError
        /\ ret.kind = "list" =>
              /\ Len(ret.list) = NumItems
              /\ \A i \in Items : ret.list[i] = Returned(ExpectedValue(i))
        /\ ret.kind = "value" => ret.value = Returned(ExpectedValue(1))
        /\ ret.kind = "dict" =>
              /\ DOMAIN ret.dict = {req.keys[i] : i \in Items}
              /\ \A i \in Items :
                    (\A j \in Items : j > i => req.keys[j] # req.keys[i])
                        => ret.dict[req.keys[i]] = Returned(ExpectedValue(i))

C4_Witness ==
    /\ client.return_none_on_failure
    /\ req.pc = "returned"
    /\ ret.kind = "dict"
    /\ req.keys = <<"x", "x">>
    /\ completed = <<2, 1>>
    /\ rresult[1].kind = "ok"
    /\ rresult[2].kind = "exc"
    /\ ret.dict["x"] = Returned(PyNone)

----------------------------------------------------------------------------
(* Properties of the session scope *)

(* C11: whenever the scope of a client is left or close() is called, after
   a normal return of request(), after PartialFailureError or after another
   exception of the scope body, the backend session is released; on a client
   that is closed already the step changes nothing. *)
C11_ScopeExitReleasesSession ==
    [][(Exit \/ Close) =>
          /\ session' = "None"
          /\ lifecycle' = "Closed"
          /\ lifecycle = "Closed" => UNCHANGED vars]_vars

C11_Witness ==
    /\ lifecycle = "Closed"
    /\ session = "None"
    /\ req.called_in = "Open"
    /\ req.pc = "raised"
    /\ ret.exc.cls = "PartialFailureError"

----------------------------------------------------------------------------
(* Properties of request(): the shape of the result *)

(* the keys supplied are pairwise distinct *)
DistinctKeys == \A i, j \in Items : i # j => req.keys[i] # req.keys[j]

(* C12: for a list of N >= 2 URLs with N pairwise distinct keys, when
   request() returns it returns a mapping whose keys are exactly the keys
   supplied and whose value under keys[i] is the outcome of urls[i], in
   whatever order the tasks completed. *)
C12_KeyedMapping ==
    (BatchOver /\ req.pc = "returned" /\ ~req.single_url /\ req.has_keys
        /\ NumItems >= 2 /\ DistinctKeys) =>
        /\ ret.kind = "dict"
        /\ DOMAIN ret.dict = {req.keys[i] : i \in Items}
        /\ Cardinality(DOMAIN ret.dict) = NumItems
        /\ \A i \in Items :
              /\ ret.dict[req.keys[i]] = Returned(ExpectedValue(i))
              /\ FromUrlAt(ret.dict[req.keys[i]].val, i)

C12_Witness ==
    /\ req.pc = "returned"
    /\ ret.kind = "dict"
    /\ req.url_list = <<"a", "b">>
    /\ req.keys = <<"x", "y">>
    /\ completed = <<2, 1>>
    /\ ret.dict["x"].val = <<"text", "b2", "a">>
    /\ ret.dict["y"].val = <<"text", "b1", "b">>

(* C13: request() called with one URL given as a string returns, when it
   returns, the bare value of that item and not a list of one element. *)
C13_SingleUrlBareValue ==
    (BatchOver /\ req.pc = "returned" /\ req.single_url) =>
        /\ NumItems = 1
        /\ ret.kind = "value"
        /\ ret.value = Returned(ExpectedValue(1))
        /\ ret.list = <<>>
        /\ ret.dict = <<>>

C13_Witness ==
    /\ req.pc = "returned"
    /\ req.single_url
    /\ req.has_keys
    /\ ret.kind = "value"
    /\ ret.value.val = <<"json", "b1", "a">>

(* C14 as stated: the result is a single value when the batch had exactly
   one item and no keys, a mapping whenever keys were supplied, whatever the
   batch size, and otherwise a sequence in input order. *)
C14_ShapeByCountAndKeys ==
    (BatchOver /\ req.pc = "returned" /\ req.called_in = "Open") =>
        ret.kind = IF req.has_keys THEN "dict"
                   ELSE IF NumItems = 1 THEN "value" ELSE "list"

(* C14, amended: the result is the bare value when urls was one URL string,
   with or without keys; for a list of URLs it is a mapping from key to
   value when keys were supplied and otherwise a sequence in input order,
   also for a list of one URL. *)
C14_ShapeByInput ==
    (BatchOver /\ req.pc = "returned") =>
        /\ ret.kind = IF req.single_url THEN "value"
                      ELSE IF req.has_keys THEN "dict" ELSE "list"
        /\ ret.kind = "value" => ret.value = Returned(ExpectedValue(1))
        /\ ret.kind = "dict" => DOMAIN ret.dict = {req.keys[i] : i \in Items}
        /\ ret.kind = "list" =>
              /\ Len(ret.list) = NumItems
              /\ \A i \in Items : ret.list[i] = Returned(ExpectedValue(i))

C14_Witness ==
    /\ req.pc = "returned"
    /\ req.called_in = "Open"
    /\ ~req.single_url
    /\ ~req.has_keys
    /\ NumItems = 1
    /\ ret.kind = "list"
    /\ ret.list = <<Returned(<<"json", "b1", "a">>)>>

----------------------------------------------------------------------------
(* Properties of request(): the checks before the batch *)

(* C15: when keys is supplied and its length is not the number of URLs,
   request() raises ConfigurationError with a message naming both counts,
   and it does so before any task exists: the backend is not called, no
   token is taken from the bucket and no slot from the semaphore. *)
C15_KeysMismatchRaisesFirst ==
    (req.pc # "idle" /\ req.has_keys /\ Len(req.keys) # Len(req.url_list)) =>
        /\ req.pc = "raised"
        /\ ret.kind = "raise"
        /\ ret.exc.cls = "ConfigurationError"
        /\ ret.message = <<"Number of keys", Len(req.keys),
                           "must match number of URLs", Len(req.url_list)>>
        /\ \A t \in Tasks : rpc[t] = "idle" /\ calls[t] = 0 /\ lpc[t] = "idle"
        /\ inflight = {}
        /\ bucket = TokenBucketInit(rlconfig.requests_per_second, rlconfig.burst, 0)
        /\ sem = SemaphoreInit(rlconfig.max_concurrency)

C15_Witness ==
    /\ req.pc = "raised"
    /\ HasRateLimiter
    /\ req.called_in = "Open"
    /\ req.url_list = <<"a", "a">>
    /\ req.keys = <<"x">>
    /\ ret.message = <<"Number of keys", 1, "must match number of URLs", 2>>

----------------------------------------------------------------------------
(* Properties of request(): duplicate keys and parse_func *)

(* the last position of the batch that carries key k *)
LastPositionOf(k) == LastIndex({i \in Items : req.keys[i] = k})

(* C16: when the keys of a list of URLs contain duplicates, request() does
   not raise because of them; when it returns, the mapping has one entry
   per distinct key, holding the outcome of the last position with that
   key, so the outcomes of earlier positions with the key are dropped. *)
C16_DuplicateKeysLastWins ==
    (req.pc \in {"returned", "raised"} /\ ~req.single_url /\ req.has_keys
        /\ Len(req.keys) = NumItems /\ ~DistinctKeys /\ ~req.parse_strict) =>
        /\ ret.exc.cls \in {"None", "PartialFailureError"}
        /\ ret.exc.cls = "PartialFailureError" => FailedItems # {}
        /\ req.pc = "returned" =>
              /\ ret.kind = "dict"
              /\ DOMAIN ret.dict = {req.keys[i] : i \in Items}
              /\ Cardinality(DOMAIN ret.dict) < NumItems
              /\ \A k \in DOMAIN ret.dict :
                    /\ ret.dict[k] = Returned(ExpectedValue(LastPositionOf(k)))
                    /\ FromUrlAt(ret.dict[k].val, LastPositionOf(k))

C16_Witness ==
    /\ req.pc = "returned"
    /\ req.url_list = <<"a", "b">>
    /\ req.keys = <<"x", "x">>
    /\ completed = <<2, 1>>
    /\ rresult[1].kind = "ok"
    /\ DOMAIN ret.dict = {"x"}
    /\ ret.dict["x"].val = <<"json", "b1", "b">>

(* how many times parse_func was applied to get value v *)
RECURSIVE Applications(_)
Applications(v) ==
    IF v # <<>> /\ v[1] = "f" THEN 1 + Applications(Tail(v)) ELSE 0

(* C17: once every task of a batch called with a parse_func is over, the
   processed result of a successful item is parse_func applied once to its
   value, and parse_func is not applied for a failed item: not to its
   exception and not to its None placeholder. *)
C17_ParseFuncOnSuccessesOnly ==
    (req.pc # "idle" /\ ret.exc.cls # "ConfigurationError" /\ GatherDone
        /\ req.parse_func) =>
        LET p == ProcessedResults(GatherResults, client.return_none_on_failure,
                                  req.parse_func)
        IN  /\ \A i \in Items :
                  IF rresult[i].kind = "ok"
                  THEN /\ p[i] = Returned(<<"f">> \o ParseResponse(rresult[i].val,
                                                                  req.return_type))
                       /\ Applications(p[i].val) = 1
                  ELSE /\ p[i] = IF client.return_none_on_failure
                                 THEN Returned(PyNone) ELSE rresult[i]
                       /\ Applications(p[i].val) = 0
            /\ (req.pc = "returned" /\ ret.kind = "list") => ret.list = p
            /\ (req.pc = "returned" /\ ret.kind = "value") => ret.value = p[1]

C17_Witness ==
    /\ req.pc = "returned"
    /\ req.parse_func
    /\ client.return_none_on_failure
    /\ req.called_in = "Open"
    /\ ret.kind = "list"
    /\ ret.list = << Returned(<<"f", "json", "b1", "a">>), Returned(PyNone) >>

----------------------------------------------------------------------------
(* Properties of request(): HTTP status codes *)

(* the status code of a response is 4xx or 5xx *)
IsErrorStatus(response) == response[1] \in {"400", "404", "500", "503"}

(* C18: an attempt whose response has a 4xx or 5xx status is a failed
   attempt: no task returns such a response as its result, so an item whose
   every attempt ends that way is reported as failed and not as a success. *)
C18_ErrorStatusIsFailure ==
    \A t \in Items : rresult[t].kind = "ok" => ~IsErrorStatus(rresult[t].val)

----------------------------------------------------------------------------
(* Properties of request(): what it raises *)

(* C19: with return_none_on_failure off, once the backend and keys checks
   have passed, the only exception request() raises is PartialFailureError:
   no backend error, retry exhaustion, response parsing error or parse_func
   error leaves request() as another exception. *)
C19_OnlyPartialFailureError ==
    (req.pc = "raised" /\ ~client.return_none_on_failure
        /\ ret.exc.cls # "ConfigurationError") =>
        ret.exc.cls = "PartialFailureError"

----------------------------------------------------------------------------
(* A ProxyManager called by concurrent requests: any sequence of get_next,
   mark_failed and mark_success, at any times *)

ProxyAddresses == {"10.0.0.1:80", "10.0.0.2:80"}
RetryDelays == {0, 1, 2}

InitProxy ==
    /\ now = 0
    /\ \E ps \in SeqsUpTo(ProxyAddresses, MaxPool), d \in RetryDelays :
          ProxyManagerInit(ps, d)
    /\ NoRetry
    /\ bucket = TokenBucketInit(1, 1, 0)
    /\ BucketInitTasks
    /\ NoLimiter
    /\ NoClient
    /\ taken = 0
    /\ NoComponents

proxyFrame == <<now, retryVars, bucketVars, limiterVars, clientVars, taken, compVars>>

GetNext == ProxyGetNext /\ UNCHANGED proxyFrame

MarkFailed == \E p \in ProxyAddresses : ProxyMarkFailed(p) /\ UNCHANGED proxyFrame

MarkSuccess == \E p \in ProxyAddresses : ProxyMarkSuccess(p) /\ UNCHANGED proxyFrame

ProxyTick == Tick /\ UNCHANGED <<retryVars, bucketVars, limiterVars, clientVars, proxyVars, taken, compVars>>

NextProxy == GetNext \/ MarkFailed \/ MarkSuccess \/ ProxyTick

SpecProxy == InitProxy /\ [][NextProxy]_vars

(* the cooldown-until timestamp of p is in the future at time t *)
InCooldown(p, failed, t) == p \in DOMAIN failed /\ failed[p] > t

(* the members of the pool that are not in cooldown at time t *)
Selectable(ps, failed, t) ==
    {p \in ProxyAddresses : InProxies(ps, p) /\ ~InCooldown(p, failed, t)}

(* C23: after any sequence and interleaving of get_next, mark_failed and
   mark_success, get_next returns a member of the pool that is not in
   cooldown at the time of the call, or None when there is no such member
   (the pool is empty or every member is in cooldown). *)
C23_GetNextSkipsCooldown ==
    [][GetNext =>
          IF Selectable(proxies, failed_proxies, now) = {}
          THEN proxy_call'.result = "None"
          ELSE /\ proxy_call'.result \in Selectable(proxies, failed_proxies, now)
               /\ ~InCooldown(proxy_call'.result, failed_proxies', now)]_vars

(* get_next returned None although the pool has two members: both are in
   cooldown *)
C23_Witness ==
    /\ proxy_call = ProxyCall("get_next", "None", "None")
    /\ Len(proxies) = 2
    /\ proxies[1] # proxies[2]
    /\ \A i \in 1..2 : InCooldown(proxies[i], failed_proxies, now)

(* get_next returned a proxy whose cooldown is over, next to one in cooldown *)
C23_WitnessAfterCooldown ==
    /\ proxy_call.op = "get_next"
    /\ proxy_call.result \in ProxyAddresses
    /\ now >= 2
    /\ \E p \in ProxyAddresses : InCooldown(p, failed_proxies, now)

(* C24: mark_failed(p) on a member p of the pool that is available makes
   count_available() drop by one immediately (a retry_delay above 0 is
   taken); once retry_delay has elapsed count_available() is back to its
   previous value with no other call. *)
C24_MarkFailedDropsByOne ==
    [][\A p \in ProxyAddresses :
          (MarkFailed /\ proxy_call' = ProxyCall("mark_failed", p, "None")
              /\ retry_delay > 0
              /\ p \in Selectable(proxies, failed_proxies, now)) =>
              /\ CountAvailable(proxies', failed_proxies', now)
                    = CountAvailable(proxies, failed_proxies, now) - 1
              /\ CountAvailable(proxies', failed_proxies', now + retry_delay)
                    = CountAvailable(proxies, failed_proxies, now + retry_delay)]_vars

(* the number of positions of the list that hold p *)
Occurrences(ps, p) == Cardinality({i \in 1..Len(ps) : ps[i] = p})

(* the cooldowns with p put in cooldown at time t *)
Without(failed, p, t) ==
    [q \in DOMAIN failed \cup {p} |-> IF q = p THEN t + 1 ELSE failed[q]]

(* C25: mark_success(p) clears the cooldown of p: right afterwards p, if a
   member of the pool, can be returned by get_next and is counted by
   count_available(); the pool and the cooldown of every other proxy are as
   before, and when p had no cooldown nothing has changed. *)
C25_MarkSuccessClearsOnlyThat ==
    [][\A p \in ProxyAddresses :
          (MarkSuccess /\ proxy_call' = ProxyCall("mark_success", p, "None")) =>
              /\ p \notin DOMAIN failed_proxies'
              /\ InProxies(proxies, p) =>
                    /\ p \in Selectable(proxies', failed_proxies', now)
                    /\ \E i \in AvailablePositions(proxies',
                                                   Purged(failed_proxies', now)) :
                          proxies'[i] = p
                    /\ CountAvailable(proxies', failed_proxies', now)
                          >= CountAvailable(proxies, failed_proxies, now)
                    /\ CountAvailable(proxies', failed_proxies', now)
                          = CountAvailable(proxies', Without(failed_proxies', p, now), now)
                               + Occurrences(proxies', p)
              /\ proxies' = proxies
              /\ retry_delay' = retry_delay
              /\ \A q \in ProxyAddresses \ {p} :
                    /\ q \in DOMAIN failed_proxies' <=> q \in DOMAIN failed_proxies
                    /\ q \in DOMAIN failed_proxies =>
                          failed_proxies'[q] = failed_proxies[q]
              /\ p \notin DOMAIN failed_proxies =>
                    failed_proxies' = failed_proxies]_vars

(* mark_success was called on a proxy in cooldown while the other member of
   the pool stays in cooldown *)
C25_Witness ==
    /\ proxy_call.op = "mark_success"
    /\ Len(proxies) = 2
    /\ proxies[1] # proxies[2]
    /\ proxy_call.proxy = proxies[1]
    /\ proxies[1] \notin DOMAIN failed_proxies
    /\ InCooldown(proxies[2], failed_proxies, now)
    /\ now > 0

----------------------------------------------------------------------------
(* Properties of the tasks of a batch *)

(* C26: in a task of a client with a rate limiter the slot is acquired once
   per item, before RetryStrategy.execute: every backoff sleep and every
   attempt after the first run inside that one acquisition. *)
C26_SlotHeldAcrossRetries ==
    HasRateLimiter =>
        \A t \in Tasks :
            /\ rpc[t] = "sleep" => lpc[t] = "inside"
            /\ (rpc[t] = "call" /\ calls[t] >= 2) => lpc[t] = "inside"

(* C34: the failure map of PartialFailureError is keyed by URL: its keys are
   the URLs of the failed positions, failed positions with the same URL
   share the one entry, which holds the error of the last of them, so there
   are at most as many entries as failed items and successes plus entries
   is at most the total. *)
C34_FailuresKeyedByUrl ==
    (req.pc = "raised" /\ ret.exc.cls = "PartialFailureError") =>
        /\ DOMAIN ret.failures = {req.url_list[i] : i \in FailedItems}
        /\ \A u \in DOMAIN ret.failures :
              LET at == {i \in FailedItems : req.url_list[i] = u}
              IN  /\ ret.failures[u].url = u
                  /\ ret.failures[u].error = rresult[LastIndex(at)].err
        /\ Cardinality(DOMAIN ret.failures) <= Cardinality(FailedItems)
        /\ ret.successes + Cardinality(DOMAIN ret.failures) <= ret.total
        /\ ret.successes + Cardinality(FailedItems) = ret.total

(* the same URL failed at two positions with different errors: one entry,
   holding the second error, and 0 + 1 < 2 *)
C34_Witness ==
    /\ req.pc = "raised"
    /\ ret.exc.cls = "PartialFailureError"
    /\ req.url_list = <<"a", "a">>
    /\ FailedItems = {1, 2}
    /\ rresult[1].err # rresult[2].err
    /\ Cardinality(DOMAIN ret.failures) = 1
    /\ ret.failures["a"].error = rresult[2].err
    /\ ret.successes + Cardinality(DOMAIN ret.failures) < ret.total

(* C35: for an AsyncRateLimiter the number of tasks holding a concurrency
   slot plus the free count of the semaphore is max_concurrency in every
   reachable state, and when a batch is over, with whatever mix of
   successes, failures and retries, every slot is free again. *)
C35_SlotsConserved ==
    HasRateLimiter =>
        /\ SlotHolders \cap sem.granted = {}
        /\ Cardinality(SlotOwners) + sem.value = rlconfig.max_concurrency
        /\ sem.value >= 0
        /\ BatchOver =>
              /\ sem.value = rlconfig.max_concurrency
              /\ SlotOwners = {}
              /\ sem.waiters = <<>>

(* a batch of two with one slot is over: one item failed after a retry, the
   other one succeeded, and the slot is free *)
C35_Witness ==
    /\ HasRateLimiter
    /\ BatchOver
    /\ rlconfig.max_concurrency = 1
    /\ NumItems = 2
    /\ \E i \in Items : rresult[i].kind = "exc" /\ calls[i] >= 2
    /\ \E i \in Items : rresult[i].kind = "ok"
    /\ sem.value = 1

(* a slot has been handed to a waiter that has not resumed yet *)
C35_WitnessHandedOver ==
    /\ HasRateLimiter
    /\ sem.granted # {}
    /\ sem.value = 0
    /\ Cardinality(SlotHolders) < rlconfig.max_concurrency

(* C33: an item whose URL is malformed fails with ValidationError before
   any backend request is made for it, and it is not retried. *)
C33_MalformedUrlRejected ==
    \A i \in Items :
        ValidateUrl(req.url_list[i]).kind = "exc" =>
            /\ i \notin inflight
            /\ sleeps[i] = 0
            /\ IsDone(i) =>
                  /\ rresult[i].kind = "exc"
                  /\ rresult[i].err.cls = ValidateUrl(req.url_list[i]).cls

(* the entry of the failure map for the URL of item i is that of item i: no
   later failed item has the same URL *)
RecordedItem(i) ==
    /\ i \in FailedItems
    /\ \A j \in FailedItems : req.url_list[j] = req.url_list[i] => j <= i

(* C30: the error recorded in the failure map for an item whose every
   attempt failed with a retryable error is a RetryExhaustedError whose
   last_error is the error of the item's final attempt; for an item that
   failed with a non-retryable error it is that error itself. *)
C30_RecordedFailureCause ==
    (req.pc = "raised" /\ ret.exc.cls = "PartialFailureError") =>
        \A i \in Items : RecordedItem(i) =>
            LET e == ret.failures[req.url_list[i]].error
            IN  /\ e = rresult[i].err
                /\ Len(errs[i]) > 0
                /\ AllRetryable(errs[i]) =>
                      /\ e.cls = "RetryExhaustedError"
                      /\ e.attempts = client.max_retries
                      /\ Len(errs[i]) = client.max_retries + 1
                      /\ e.last_error = <<LastOf(errs[i])>>
                      /\ LastOf(errs[i]).id = calls[i]
                /\ ~AllRetryable(errs[i]) => e = LastOf(errs[i])

(* one item failed twice and is recorded while the other one succeeded *)
C30_Witness ==
    /\ req.pc = "raised"
    /\ ret.exc.cls = "PartialFailureError"
    /\ NumItems = 2
    /\ client.max_retries = 1
    /\ RecordedItem(1)
    /\ rresult[2].kind = "ok"
    /\ calls[1] = 2
    /\ ret.failures["a"].error.cls = "RetryExhaustedError"
    /\ ret.failures["a"].error.last_error = <<RaisedIn(1, Error("BackendError", 2))>>

----------------------------------------------------------------------------
(* An open client and one batch, with the scheduling of the event loop:    *)
(* a task that can run does run, a sleep that is due ends, a backend call  *)
(* ends, and time advances while a task waits for it                       *)

LiveUrlLists == {<<"a">>, <<"a", "a">>}

(* enough ticks for every call of the longest batch to wait for a full
   token and for every backoff sleep, of less than two ticks *)
LiveClientHorizon == 2 * 2 * (TokenUnit + 2)

InitLive ==
    \E c \in {1, 2}, m \in ClientRetries, rate \in ClientRates :
        ClientInit(c, m, rate, FALSE)

(* the sleep of task t, in execute or in bucket.acquire, is not over yet *)
WaitsForTime(t) ==
    \/ rpc[t] = "sleep" /\ now * TimeScale < wake[t]
    \/ bpc[t] = "sleep" /\ now * TimeScale < bwake[t]

(* the sleep of task t is over and the task has not resumed *)
DueNow(t) ==
    \/ rpc[t] = "sleep" /\ now * TimeScale >= wake[t]
    \/ bpc[t] = "sleep" /\ now * TimeScale >= bwake[t]

LiveEnter == lifecycle = "Uninitialized" /\ Enter

LiveRequest ==
    \E urls \in LiveUrlLists :
        /\ req.pc = "idle"
        /\ lifecycle = "Open"
        /\ Request(FALSE, urls, FALSE, <<>>, FALSE, "json")
        /\ UNCHANGED <<now, bucketVars, limiterVars>>

LiveBackendEnds == RunBackendReturns \/ RunBackendRaises

(* the loop runs the timers that are due before it waits for the next one *)
LiveClientTick ==
    /\ req.pc = "gather"
    /\ now < LiveClientHorizon
    /\ \E t \in Items : WaitsForTime(t)
    /\ \A t \in Items : ~DueNow(t)
    /\ now' = now + 1
    /\ UNCHANGED <<retryVars, bucketVars, limiterVars, clientVars, proxyVars, taken, compVars>>

NextLive ==
    \/ LiveEnter \/ LiveRequest
    \/ RunMakeRequest \/ RunGranted \/ RunBucketResume
    \/ LiveBackendEnds \/ RunTaskWake
    \/ Finish
    \/ LiveClientTick

SpecLive ==
    /\ InitLive
    /\ [][NextLive]_vars
    /\ WF_vars(RunMakeRequest)
    /\ WF_vars(RunGranted)
    /\ WF_vars(RunBucketResume)
    /\ WF_vars(LiveBackendEnds)
    /\ WF_vars(RunTaskWake)
    /\ WF_vars(Finish)
    /\ WF_vars(LiveClientTick)

(* the invocations of make_request by the tasks of positions 1..n *)
RECURSIVE CallsUpTo(_)
CallsUpTo(n) == IF n = 0 THEN 0 ELSE calls[n] + CallsUpTo(n - 1)

(* C36: every request() on an open client completes in the end, by return
   or by exception, when each backend call ends, time advances and the
   limiter, if any, has a rate above 0 and a burst of at least 1: no item
   waits for ever on the limiter, each item makes at most max_retries + 1
   backend calls and a batch of N items at most N * (max_retries + 1). *)
C36_RequestCompletes ==
    /\ (req.pc = "gather") ~> (req.pc \in {"returned", "raised"})
    /\ \A t \in Tasks : (lpc[t] \in {"wait_sem", "bucket"}) ~> (lpc[t] \in {"inside", "idle"})
    /\ [](\A t \in Tasks : calls[t] <= client.max_retries + 1)
    /\ [](CallsUpTo(NumItems) <= NumItems * (client.max_retries + 1))
    /\ []((\E t \in Items : WaitsForTime(t)) => now < LiveClientHorizon)

(* request() is over after both items of a batch failed twice behind a
   limiter with one slot: four backend calls were made *)
C36_Witness ==
    /\ req.pc = "raised"
    /\ lifecycle = "Open"
    /\ HasRateLimiter
    /\ rlconfig.max_concurrency = 1
    /\ NumItems = 2
    /\ client.max_retries = 1
    /\ \A t \in Items : calls[t] = 2 /\ sleeps[t] = 1
    /\ CallsUpTo(NumItems) = 4

(* an item waits for tokens while the other one sleeps before its retry *)
C36_WitnessWaiting ==
    /\ req.pc = "gather"
    /\ \E t \in Items : lpc[t] = "bucket" /\ bpc[t] = "sleep"
    /\ \E t \in Items : rpc[t] = "sleep"

----------------------------------------------------------------------------
(* The batch is cancelled: the task of request() is cancelled while it     *)
(* awaits gather, gather cancels its children in the order of the batch    *)
(* and CancelledError is thrown in each at the point where it is suspended *)

(* the finally block of Semaphore.acquire: "while self._value > 0: if not
   self._wake_up_next(): break" *)
RECURSIVE WakeUpAll(_)
WakeUpAll(s) ==
    IF s.value > 0 /\ WakeUpNext(s) # s THEN WakeUpAll(WakeUpNext(s)) ELSE s

(* where task t is suspended, or "start" when it has not run yet *)
SuspensionPoint(t) ==
    IF lpc[t] = "wait_sem" THEN "slot"
    ELSE IF lpc[t] = "bucket" THEN "tokens"
    ELSE IF t \in inflight THEN "backend"
    ELSE IF rpc[t] = "sleep" THEN "backoff"
    ELSE "start"

CancelledInSemaphoreLosingSlot(s, t) ==
    [s EXCEPT !.waiters = SelectSeq(@, LAMBDA w : w # t), !.granted = @ \ {t}]

(* CancelledError in Semaphore.acquire: the waiter leaves the queue, gives
   back the slot if release() had handed it one, and wakes the next ones *)
CancelledInSemaphore(s, t) ==
    WakeUpAll([s EXCEPT !.waiters = SelectSeq(@, LAMBDA w : w # t),
                        !.granted = @ \ {t},
                        !.value = IF t \in s.granted THEN @ + 1 ELSE @])

(* the semaphore after CancelledError was thrown in task t: the async with
   block of the rate limiter, if there is one, is left *)
CancelledTask(s, t) ==
    IF IsDone(t) \/ ~HasRateLimiter THEN s
    ELSE IF SuspensionPoint(t) = "slot" THEN CancelledInSemaphore(s, t)
    ELSE IF SuspensionPoint(t) \in {"tokens", "backend"} THEN SemRelease(s)
    ELSE s

(* the semaphore after the tasks t..NumItems were cancelled, in this order *)
RECURSIVE CancelledFrom(_, _)
CancelledFrom(s, t) ==
    IF t > NumItems THEN s ELSE CancelledFrom(CancelledTask(s, t), t + 1)

(* the position of a task that ended with CancelledError *)
CancelledAt(point) ==
    CASE point = "slot" -> "cancelled_slot"
      [] point = "tokens" -> "cancelled_tokens"
      [] point = "backend" -> "cancelled_backend"
      [] point = "backoff" -> "cancelled_backoff"
      [] OTHER -> "cancelled_start"

(* request() is cancelled while it awaits gather *)
CancelBatch ==
    /\ req.pc = "gather"
    /\ sem' = CancelledFrom(sem, 1)
    /\ lpc' = [t \in Tasks |-> "idle"]
    /\ bpc' = [t \in Tasks |-> "idle"]
    /\ bwant' = [t \in Tasks |-> 0]
    /\ bwake' = [t \in Tasks |-> 0]
    /\ rpc' = [t \in Tasks |->
                 IF t \in Items /\ ~IsDone(t) THEN CancelledAt(SuspensionPoint(t))
                 ELSE rpc[t]]
    /\ wake' = [t \in Tasks |-> IF t \in Items /\ ~IsDone(t) THEN 0 ELSE wake[t]]
    /\ rresult' = [t \in Tasks |->
                     IF t \in Items /\ ~IsDone(t)
                     THEN Raised(RaisedIn(t, Error("CancelledError", 0)))
                     ELSE rresult[t]]
    /\ inflight' = {}
    /\ req' = [req EXCEPT !.pc = "cancelled"]
    /\ ret' = [NoReturn EXCEPT !.kind = "raise", !.exc = Error("CancelledError", 0)]
    /\ UNCHANGED <<now, config, attempt, last_error, calls, sleeps, errs, bucket,
                   rlconfig, client, session, lifecycle, completed, proxyVars, taken,
                   compVars>>

NextCancel == NextLive \/ CancelBatch

SpecCancel == InitLive /\ [][NextCancel]_vars

(* C31: when a batch is cancelled while its items are suspended, waiting
   for a slot, for tokens, in a backoff sleep or in a backend call, then
   afterwards the token count is within [0, burst] and is what it was, every
   slot of the semaphore is free and no waiter is left, and the state of the
   proxy manager is what its completed calls had made it. *)
C31_CancelLeavesLimiterClean ==
    /\ [](req.pc = "cancelled" =>
            /\ bucket.tokens >= 0
            /\ bucket.tokens <= bucket.burst * TokenUnit
            /\ HasRateLimiter => sem.value = rlconfig.max_concurrency
            /\ sem.waiters = <<>>
            /\ sem.granted = {}
            /\ SlotOwners = {}
            /\ inflight = {}
            /\ \A t \in Tasks : bpc[t] = "idle" /\ ~IsDone(t) => rresult[t].kind # "ok")
    /\ [][(req.pc = "gather" /\ req'.pc = "cancelled") =>
             /\ bucket' = bucket
             /\ UNCHANGED proxyVars]_vars

(* one slot: the batch was cancelled while one item was in its backend call
   and the other one waited for the slot *)
C31_Witness ==
    /\ req.pc = "cancelled"
    /\ HasRateLimiter
    /\ rlconfig.max_concurrency = 1
    /\ rpc[1] = "cancelled_backend"
    /\ rpc[2] = "cancelled_slot"
    /\ sem.value = 1

(* the batch was cancelled after release() had handed the slot of a
   finished item to the waiter and before the waiter resumed *)
C31_WitnessHandedSlot ==
    /\ req.pc = "cancelled"
    /\ rlconfig.max_concurrency = 1
    /\ \E t \in Items : IsDone(t)
    /\ \E t \in Items : rpc[t] = "cancelled_slot" /\ calls[t] = 1
    /\ \E t \in Items : IsDone(t) /\ calls[t] = 1 /\ rresult[t].kind = "ok"
    /\ NumItems = 2
    /\ sem.value = 1

(* the batch was cancelled while one item waited for tokens and the other
   one slept before its retry *)
C31_WitnessTokensAndBackoff ==
    /\ req.pc = "cancelled"
    /\ \E t \in Items : rpc[t] = "cancelled_tokens"
    /\ \E t \in Items : rpc[t] = "cancelled_backoff"
    /\ bucket.tokens < TokenUnit

----------------------------------------------------------------------------
(* A TokenBucket that is asked for more tokens than its burst, which may   *)
(* be 0                                                                    *)

InitBucketOver ==
    /\ now = 0
    /\ \E rate \in 1..MaxRate, burst \in 0..MaxBurst :
          bucket = TokenBucketInit(rate, burst, 0)
    /\ BucketInitTasks
    /\ NoRetry
    /\ NoLimiter
    /\ NoClient
    /\ NoProxyManager
    /\ taken = 0
    /\ NoComponents

OverCallers == {1, 2}

(* acquire(n) with n up to burst + 1 *)
OverAcquire ==
    \E t \in OverCallers, n \in 1..(bucket.burst + 1) :
        /\ BucketAcquire(t, n)
        /\ TakenBy(t, n)
        /\ UNCHANGED <<now, retryVars, limiterVars, clientVars, proxyVars, compVars>>

OverResume ==
    \E t \in OverCallers :
        /\ BucketResume(t)
        /\ TakenBy(t, bwant[t])
        /\ UNCHANGED <<now, retryVars, limiterVars, clientVars, proxyVars, compVars>>

OverTick == Tick /\ UNCHANGED <<retryVars, bucketVars, limiterVars, clientVars, proxyVars, taken, compVars>>

NextBucketOver == OverAcquire \/ OverResume \/ OverTick

SpecBucketOver == InitBucketOver /\ [][NextBucketOver]_vars

(* C38: acquire(n) with n above burst never returns and never raises: the
   refill caps the count at burst, so the test tokens >= n fails at every
   iteration and the caller sleeps again, until a later time, whatever the
   other callers do; with burst 0 this is so for every acquire. *)
C38_OversizeNeverReturns ==
    /\ [](\A t \in OverCallers : bpc[t] = "sleep" <=> bwant[t] > 0)
    /\ [][taken' # taken => taken' - taken <= bucket.burst]_vars
    /\ [][\A t \in OverCallers, n \in 1..(MaxBurst + 1) :
             (n > bucket.burst /\ BucketAcquire(t, n)) =>
                 /\ bpc'[t] = "sleep"
                 /\ bwant'[t] = n
                 /\ bwake'[t] > now * TimeScale]_vars
    /\ [][\A t \in OverCallers :
             (bwant[t] > bucket.burst /\ BucketResume(t)) =>
                 /\ bpc'[t] = "sleep"
                 /\ bwant'[t] = bwant[t]
                 /\ bwake'[t] > now * TimeScale
                 /\ taken' = taken]_vars

(* at the end of the clock a caller that asked for burst + 1 tokens sleeps
   in front of a full bucket, while the other caller got its tokens *)
C38_Witness ==
    /\ now = MaxTime
    /\ bucket.burst >= 1
    /\ bpc[1] = "sleep"
    /\ bwant[1] = bucket.burst + 1
    /\ bucket.last_update = MaxTime
    /\ bucket.tokens = bucket.burst * TokenUnit
    /\ bwake[1] > now * TimeScale
    /\ bpc[2] = "idle"
    /\ taken > 0

(* burst is 0: both callers sleep for one token *)
C38_WitnessNoBurst ==
    /\ bucket.burst = 0
    /\ \A t \in OverCallers : bpc[t] = "sleep" /\ bwant[t] = 1
    /\ bucket.last_update = MaxTime
    /\ taken = 0

----------------------------------------------------------------------------
(* The components on their own: a HeaderManager, the backends that can be  *)
(* imported and an AiohttpBackend, called one call at a time               *)

AgentNames == {"ua-1", "ua-2"}

HeaderKeys == {"user-agent", "User-Agent", "accept"}

HeaderValues == {"mine"}

(* the custom_headers tried: None, or a dict over HeaderKeys *)
CustomHeaderArgs ==
    {[given |-> FALSE, dict |-> EmptyDict]} \cup
    {[given |-> TRUE, dict |-> d] :
        d \in UNION {[K -> HeaderValues] : K \in SUBSET HeaderKeys}}

BackendNames == {"auto", "nosuch"} \cup BackendModules

InitComponents ==
    /\ now = 0
    /\ \E e \in BOOLEAN, ua \in SeqsUpTo(AgentNames, MaxAgents),
          cu \in {"None", "fixed"}, env \in {<<>>, <<"env-1">>} :
          hm = HeaderManagerInit(e, ua, cu, env)
    /\ \E imp \in SUBSET (BackendModules \ {"base"}) : importable = imp \cup {"base"}
    /\ call = NoCall
    /\ NoRetry
    /\ bucket = TokenBucketInit(1, 1, 0)
    /\ BucketInitTasks
    /\ NoLimiter
    /\ NoClient
    /\ NoProxyManager
    /\ taken = 0

compFrame == <<now, retryVars, bucketVars, limiterVars, client, lifecycle, req, ret,
               inflight, completed, proxyVars, taken, importable>>

(* HeaderManager.set_custom_user_agent(user_agent) *)
SetCustomUserAgent ==
    \E ua \in {"", "fixed"} :
        /\ call.pc = "done"
        /\ hm' = [hm EXCEPT !.custom_ua = ua]
        /\ call' = [op |-> "set_custom_user_agent", arg |-> ua, pc |-> "done",
                    result |-> CallReturned(<<>>)]
        /\ UNCHANGED <<compFrame, session>>

(* HeaderManager.get_headers(custom_headers) *)
CallGetHeaders ==
    \E custom \in CustomHeaderArgs, a \in RandomChoices(hm.agents) :
        /\ call.pc = "done"
        /\ call' = [op |-> "get_headers", arg |-> custom, pc |-> "done",
                    result |-> CallReturned(GetHeaders(hm, custom, a))]
        /\ UNCHANGED <<compFrame, session, hm>>

(* ParallelRequests(backend=name) selects its backend *)
CallSelectBackend ==
    \E name \in BackendNames :
        /\ call.pc = "done"
        /\ call' = [op |-> "select_backend", arg |-> name, pc |-> "done",
                    result |-> SelectBackend(name, importable)]
        /\ UNCHANGED <<compFrame, session, hm>>

(* AiohttpBackend.__aenter__ *)
AiohttpEnter ==
    /\ call.pc = "done"
    /\ session = "None"
    /\ session' = "Session"
    /\ UNCHANGED <<compFrame, hm, call>>

(* AiohttpBackend.close *)
AiohttpClose ==
    /\ call.pc = "done"
    /\ session # "None"
    /\ session' = "None"
    /\ UNCHANGED <<compFrame, hm, call>>

CallAiohttpRequest ==
    \E url \in Urls :
        /\ call.pc = "done"
        /\ AiohttpRequest(url)
        /\ UNCHANGED <<compFrame, session, hm>>

SendRaises == \E e \in SendErrors : AiohttpSendRaises(e) /\ UNCHANGED <<compFrame, session, hm>>

Responds == \E r \in Responses : AiohttpResponds(r) /\ UNCHANGED <<compFrame, session, hm>>

ReadRaises == \E e \in ReadErrors : AiohttpReadRaises(e) /\ UNCHANGED <<compFrame, session, hm>>

ReadReturns == AiohttpReadReturns /\ UNCHANGED <<compFrame, session, hm>>

NextComponents ==
    \/ SetCustomUserAgent \/ CallGetHeaders
    \/ CallSelectBackend
    \/ AiohttpEnter \/ AiohttpClose
    \/ CallAiohttpRequest \/ SendRaises \/ Responds \/ ReadRaises \/ ReadReturns

SpecComponents == InitComponents /\ [][NextComponents]_vars

(* C32: every failure of Backend.request that originates in the transport,
   while the request is sent or while the body of the response is read,
   reaches the caller as a BackendError that wraps the exception of the
   transport: no exception of the transport leaves request as it is. *)
C32_TransportFailuresWrapped ==
    (call.op = "request" /\ call.pc = "done" /\ call.result.kind = "exc") =>
        /\ call.result.exc.cls \notin SendErrors \cup ReadErrors
        /\ call.result.exc.cls # "RuntimeError" =>
              /\ call.result.exc.cls = "BackendError"
              /\ call.result.exc.cause \in SendErrors \cup ReadErrors

(* the base mappings that get_headers may start from: none when the agent
   is not sent, the fixed agent when one is set, else one of the list *)
BaseMappings ==
    IF ~hm.enabled THEN {EmptyDict}
    ELSE IF hm.custom_ua \notin {"None", ""}
         THEN {[k \in {"user-agent"} |-> hm.custom_ua]}
         ELSE {[k \in {"user-agent"} |-> hm.agents[i]] : i \in DOMAIN hm.agents}

(* C40: get_headers(custom) returns the headers of the caller laid over a
   base mapping, the keys of the caller winning: the base is empty when the
   rotation is disabled, user-agent with the fixed agent when one is set,
   and else user-agent with an agent of the list, whichever was chosen
   before; the call leaves the manager and its list of agents as they were. *)
C40_HeadersOverBase ==
    /\ [](call.op = "get_headers" =>
            LET custom == IF call.arg.given THEN call.arg.dict ELSE EmptyDict
                h == call.result.value
            IN  /\ call.result.kind = "ok"
                /\ \E base \in BaseMappings :
                      /\ DOMAIN h = DOMAIN base \cup DOMAIN custom
                      /\ \A k \in DOMAIN custom : h[k] = custom[k]
                      /\ \A k \in DOMAIN base \ DOMAIN custom : h[k] = base[k])
    /\ [][call'.op = "get_headers" => hm' = hm]_vars
    /\ [][hm'.agents = hm.agents]_vars

(* the caller's user-agent replaced the fixed one and accept was added *)
C40_Witness ==
    /\ call.op = "get_headers"
    /\ hm.enabled
    /\ hm.custom_ua = "fixed"
    /\ call.arg.given
    /\ DOMAIN call.arg.dict = {"user-agent", "accept"}
    /\ call.result.value = [k \in {"user-agent", "accept"} |-> "mine"]

(* the second agent of a list of two was chosen, with no custom headers *)
C40_WitnessRotation ==
    /\ call.op = "get_headers"
    /\ hm.enabled
    /\ hm.custom_ua = "None"
    /\ hm.agents = <<"ua-1", "ua-2">>
    /\ ~call.arg.given
    /\ call.result.value = [k \in {"user-agent"} |-> "ua-2"]

(* the rotation is disabled and a fixed agent is set: only the headers of
   the caller *)
C40_WitnessDisabled ==
    /\ call.op = "get_headers"
    /\ ~hm.enabled
    /\ hm.custom_ua = "fixed"
    /\ call.arg.given
    /\ call.result.value = [k \in {"accept"} |-> "mine"]

(* C39: with backend "auto" the backends niquests, aiohttp, requests are
   tried in this order and the first that can be imported is used; when
   none of them can, ConfigurationError "No suitable backend found" is
   raised; a backend given by name that cannot be imported raises a
   ConfigurationError that names it. *)
C39_BackendSelection ==
    call.op = "select_backend" =>
        LET name == call.arg
            r == call.result
            imp(m) == m \in importable
        IN  /\ name = "auto" =>
                 /\ imp("niquests") => r = CallReturned("niquests")
                 /\ (~imp("niquests") /\ imp("aiohttp")) => r = CallReturned("aiohttp")
                 /\ (~imp("niquests") /\ ~imp("aiohttp") /\ imp("requests")) =>
                        r = CallReturned("requests")
                 /\ (~imp("niquests") /\ ~imp("aiohttp") /\ ~imp("requests")) =>
                        /\ r.kind = "exc"
                        /\ r.exc.cls = "ConfigurationError"
                        /\ r.exc.message = <<"No suitable backend found">>
            /\ (name # "auto" /\ ~imp(name)) =>
                 /\ r.kind = "exc"
                 /\ r.exc.cls = "ConfigurationError"
                 /\ \E i \in DOMAIN r.exc.message : r.exc.message[i] = name

(* niquests cannot be imported, aiohttp and requests can: aiohttp is used *)
C39_Witness ==
    /\ call.op = "select_backend"
    /\ call.arg = "auto"
    /\ importable = {"aiohttp", "requests", "httpx", "base"}
    /\ call.result = CallReturned("aiohttp")

(* only httpx can be imported: "auto" finds no backend *)
C39_WitnessNone ==
    /\ call.op = "select_backend"
    /\ call.arg = "auto"
    /\ importable = {"httpx", "base"}
    /\ call.result.exc.message = NoSuitableBackend

(* requests is asked for by name and cannot be imported *)
C39_WitnessNamed ==
    /\ call.op = "select_backend"
    /\ call.arg = "requests"
    /\ "requests" \notin importable
    /\ call.result.exc.cls = "ConfigurationError"
    /\ call.result.exc.message = <<"Failed to load backend", "requests">>

====
